---- MODULE Spec2Model ----
(***************************************************************************)
(* A model of the DrissionPage task scheduler: the cron evaluator          *)
(* (_scheduler/cron_parser.py), the execution record and the retrying      *)
(* executors (_scheduler/task.py, _scheduler/executor.py,                  *)
(* _functions/task_executor.py) and the task registries                    *)
(* (_functions/task_manager.py, _functions/task_executor.py,               *)
(* _scheduler/scheduler.py).                                               *)
(***************************************************************************)
EXTENDS Integers, Sequences, FiniteSets, TLC

VARIABLES
    cron_expression,   \* CronParser.cron_expression: the five field tokens
    cron,              \* CronParser.minute/hour/day/month/weekday
    base_time,         \* get_next_run_time's base_time argument
    next_time,         \* get_next_run_time's local next_time
    cron_pc            \* position of the parser / of the search loop

cronVars == <<cron_expression, cron, base_time, next_time, cron_pc>>

VARIABLES
    impl,          \* the executor under run: "scheduler" or "functions"
    max_retries,   \* Task.max_retries / Task.retry_times
    retry_interval,\* Task.retry_interval
    work_plan,     \* the work fails on its first work_plan invocations of a call
    execution,     \* the TaskExecution object handed to execute_task
    log_file,      \* content of the log file log_path names
    created,       \* TaskExecution objects constructed so far
    ftask,         \* the state a functions Task keeps of its run
    retry_count,   \* the local retry_count of the executing loop
    invocations,   \* invocations of the work made by the current call
    backoffs,      \* retry waits made by the current call
    now,           \* the wall clock, in seconds
    ex_pc          \* position of the executing call

execVars == <<impl, max_retries, retry_interval, work_plan, execution, log_file,
              created, ftask, retry_count, invocations, backoffs, now, ex_pc>>

VARIABLES
    mgr_tasks,     \* TaskManager.tasks: key -> Task
    mgr_file,      \* the tasks file of the TaskManager (config_path)
    mgr_pc,        \* position of the TaskManager call in progress
    fx_tasks,      \* TaskExecutor.tasks of _functions/task_executor.py: its keys
    fx_ids,        \* task ids uuid4 has handed out
    io_failures,   \* writes of the tasks file that have failed
    reg_last       \* the last registry call that returned, and what it returned

regVars == <<mgr_tasks, mgr_file, mgr_pc, fx_tasks, fx_ids, io_failures, reg_last>>

VARIABLES
    p_impl,           \* the poll loop under run: "scheduler" or "functions"
    p_tasks,          \* the tasks dict the poll loop iterates: key -> task
    p_used,           \* task keys handed out so far
    stop_flag,        \* TaskScheduler.stop_flag / TaskExecutor._stop_event
    scheduler_thread, \* TaskScheduler.scheduler_thread: 0 is None
    threads,          \* the poll-loop threads created so far and their positions
    units,            \* executions in progress outside the poll threads
    caller_pc,        \* position of the caller of start() and stop()
    stopped,          \* stop() has returned and start() was not called since
    p_now             \* the wall clock of the poll loop, in minutes

pollVars == <<p_impl, p_tasks, p_used, stop_flag, scheduler_thread, threads, units,
              caller_pc, stopped, p_now>>

VARIABLES
    sch_tasks,     \* TaskScheduler.tasks: key -> task object
    sch_file,      \* the tasks file of the TaskScheduler (tasks_file)
    fxr_tasks,     \* TaskExecutor.tasks of _functions/task_executor.py: key -> task
    sch_last       \* the last registry call made, and how it came back

schVars == <<sch_tasks, sch_file, fxr_tasks, sch_last>>

VARIABLES
    hist_impl,     \* "history" (ExecutionHistory) or "functions" (TaskExecutor)
    hist_store,    \* the stored execution records, in listing order
    hist_query,    \* the criteria of the last filter call
    hist_result,   \* what the last filter call returned
    hist_last      \* the last call on the history: its kind, its argument, its outcome

histVars == <<hist_impl, hist_store, hist_query, hist_result, hist_last>>

VARIABLES
    w_impl,        \* the runner of the work: "scheduler" or "functions"
    w_max_retries, \* Task.max_retries / Task.retry_times
    w_need,        \* how long the invocation under way runs when left alone
    w_elapsed,     \* how long the invocation under way has run
    w_retry,       \* the local retry_count of the executing loop
    w_pc           \* position of the executing call

workVars == <<w_impl, w_max_retries, w_need, w_elapsed, w_retry, w_pc>>

VARIABLES
    run_impl,        \* "scheduler", "functions" or "manager"
    runner,          \* the object's tasks and its stored execution records
    run_invocations, \* invocations of work made so far
    run_last         \* the last call made, and how it came back

runVars == <<run_impl, runner, run_invocations, run_last>>

VARIABLES
    due_impl,      \* the poll loop under run: "scheduler" or "functions"
    due_minutes,   \* the minute token of the task's expression 'M * * * *'
    due_now,       \* the wall clock of the poll loop, in half minutes
    due_ticks,     \* passes of the poll loop made so far
    due_log        \* the dispatches made: the tick, the minute found due, the record

dueVars == <<due_impl, due_minutes, due_now, due_ticks, due_log>>

VARIABLES
    rec_task,      \* the fields of the one Task object every caller executes
    rec_pc,        \* where each caller of execute_task stands
    rec_own,       \* what the run of each caller was: its start, status, retries
    rec_records,   \* TaskExecutor.execution_records
    rec_clock      \* datetime.now() of the next Task.execute

recVars == <<rec_task, rec_pc, rec_own, rec_records, rec_clock>>

vars == <<cronVars, execVars, regVars, pollVars, schVars, histVars, workVars,
          runVars, dueVars, recVars>>

notCron == <<execVars, regVars, pollVars, schVars, histVars,
            workVars, runVars, dueVars, recVars>>

notExec == <<cronVars, regVars, pollVars, schVars, histVars,
            workVars, runVars, dueVars, recVars>>

notReg == <<cronVars, execVars, pollVars, schVars, histVars,
            workVars, runVars, dueVars, recVars>>

notPoll == <<cronVars, execVars, regVars, schVars, histVars,
            workVars, runVars, dueVars, recVars>>

notSch == <<cronVars, execVars, regVars, pollVars, histVars,
            workVars, runVars, dueVars, recVars>>

notHist == <<cronVars, execVars, regVars, pollVars, schVars,
            workVars, runVars, dueVars, recVars>>

notWork == <<cronVars, execVars, regVars, pollVars, schVars, histVars,
             runVars, dueVars, recVars>>

notRun == <<cronVars, execVars, regVars, pollVars, schVars, histVars,
            workVars, dueVars, recVars>>

notDue == <<cronVars, execVars, regVars, pollVars, schVars, histVars,
            workVars, runVars, recVars>>

notRec == <<cronVars, execVars, regVars, pollVars, schVars, histVars,
           workVars, runVars, dueVars>>

(***************************************************************************)
(* Calendar arithmetic of datetime.datetime, as get_next_run_time uses it. *)
(***************************************************************************)

\* datetime.MAXYEAR is 9999; the model scales the last representable year down.
MAXYEAR == 2026

IsLeap(y) == (y % 4 = 0) /\ ((y % 100 # 0) \/ (y % 400 = 0))

DaysInMonth(y, m) ==
    IF m = 2 THEN (IF IsLeap(y) THEN 29 ELSE 28)
    ELSE IF m \in {4, 6, 9, 11} THEN 30 ELSE 31

DaysBeforeYear(y) ==
    (y - 1) * 365 + ((y - 1) \div 4) - ((y - 1) \div 100) + ((y - 1) \div 400)

RECURSIVE DaysBeforeMonth(_, _)
DaysBeforeMonth(y, m) ==
    IF m = 1 THEN 0 ELSE DaysBeforeMonth(y, m - 1) + DaysInMonth(y, m - 1)

\* date.toordinal(): 0001-01-01 is day 1
ToOrdinal(t) == DaysBeforeYear(t.year) + DaysBeforeMonth(t.year, t.month) + t.day

\* datetime.weekday(): Monday is 0 and Sunday is 6
PyWeekday(t) == (ToOrdinal(t) + 6) % 7

\* minutes since 0001-01-01T00:00 of the day before: orders instants to the minute
MinuteIndex(t) == (ToOrdinal(t) * 24 + t.hour) * 60 + t.minute

\* t + timedelta(days=1) leaves the representable range (OverflowError)
DayOverflows(t) ==
    t.day = DaysInMonth(t.year, t.month) /\ t.month = 12 /\ t.year = MAXYEAR

\* t + timedelta(days=1)
AddDay(t) ==
    IF t.day < DaysInMonth(t.year, t.month) THEN [t EXCEPT !.day = t.day + 1]
    ELSE IF t.month < 12 THEN [t EXCEPT !.month = t.month + 1, !.day = 1]
    ELSE [t EXCEPT !.year = t.year + 1, !.month = 1, !.day = 1]

HourOverflows(t) == t.hour = 23 /\ DayOverflows(t)

\* t + timedelta(hours=1)
AddHour(t) ==
    IF t.hour < 23 THEN [t EXCEPT !.hour = t.hour + 1]
    ELSE [AddDay(t) EXCEPT !.hour = 0]

MinuteOverflows(t) == t.minute = 59 /\ HourOverflows(t)

\* t + timedelta(minutes=1)
AddMinute(t) ==
    IF t.minute < 59 THEN [t EXCEPT !.minute = t.minute + 1]
    ELSE [AddHour(t) EXCEPT !.minute = 0]

(***************************************************************************)
(* CronParser: the field tokens of an expression and their parsing.        *)
(* A token is what one whitespace-separated field spells.                  *)
(***************************************************************************)

Star == [kind |-> "star", a |-> 0, b |-> 0]             \* "*"
Val(v) == [kind |-> "val", a |-> v, b |-> 0]            \* "v"
Range(x, y) == [kind |-> "range", a |-> x, b |-> y]     \* "x-y"
List2(x, y) == [kind |-> "list", a |-> x, b |-> y]      \* "x,y"
Step(n) == [kind |-> "step", a |-> n, b |-> 0]          \* "*/n"
FromStep(x, n) == [kind |-> "fromstep", a |-> x, b |-> n]  \* "x/n"
Word == [kind |-> "word", a |-> 0, b |-> 0]             \* a non-numeric token
WordStep(n) == [kind |-> "wordstep", a |-> n, b |-> 0]  \* "w*/n", a word before "*/n"

Rejected == [ok |-> FALSE, vals |-> {}]

Accepted(S) == [ok |-> TRUE, vals |-> S]

\* CronParser._parse_field: the tests are made in the code's order
\* ('*', then '-', then ',', then '*/', then int(field))
ParseField(field, min_val, max_val) ==
    IF field.kind = "star" THEN Accepted(min_val .. max_val)
    ELSE IF field.kind = "range" THEN
        IF field.a < min_val \/ field.b > max_val \/ field.a > field.b
        THEN Rejected
        ELSE Accepted(field.a .. field.b)
    ELSE IF field.kind = "list" THEN
        IF \E v \in {field.a, field.b} : v < min_val \/ v > max_val
        THEN Rejected
        ELSE Accepted({field.a, field.b})
    ELSE IF field.kind \in {"step", "wordstep"} THEN
        \* '*/' in field: only what follows the first '*/' is read
        IF field.a <= 0 THEN Rejected
        ELSE Accepted({v \in min_val .. max_val : (v - min_val) % field.a = 0})
    ELSE IF field.kind = "val" THEN
        IF field.a < min_val \/ field.a > max_val THEN Rejected
        ELSE Accepted({field.a})
    ELSE Rejected   \* "x/n" and words: int(field) raises ValueError

NoCron == [minute |-> {}, hour |-> {}, day |-> {}, month |-> {}, weekday |-> {}]

\* CronParser._parse_expression: exactly five fields, each parsed in its bounds
ParseExpression(parts) ==
    IF Len(parts) # 5 THEN [ok |-> FALSE, sets |-> NoCron]
    ELSE LET minute == ParseField(parts[1], 0, 59)
             hour == ParseField(parts[2], 0, 23)
             day == ParseField(parts[3], 1, 31)
             month == ParseField(parts[4], 1, 12)
             weekday == ParseField(parts[5], 0, 6)
         IN IF minute.ok /\ hour.ok /\ day.ok /\ month.ok /\ weekday.ok
            THEN [ok |-> TRUE,
                  sets |-> [minute |-> minute.vals, hour |-> hour.vals,
                            day |-> day.vals, month |-> month.vals,
                            weekday |-> weekday.vals]]
            ELSE [ok |-> FALSE, sets |-> NoCron]

(***************************************************************************)
(* The expressions and base instants the evaluator is run on.              *)
(***************************************************************************)

MinuteToks == {Star, Val(0), List2(15, 45), Step(20)}
HourToks == {Star, Val(9), Range(22, 23)}
DayToks == {Star, Val(1), Val(31)}
MonthToks == {Star, Val(2), Range(4, 6)}
WeekdayToks == {Range(1, 5), Val(0), Val(6)}

Expr(mi, h, d, mo, wd) == <<mi, h, d, mo, wd>>

\* day-of-month and month restricted, any weekday
DateExprs ==
    {Expr(mi, h, d, mo, Star) : mi \in MinuteToks, h \in HourToks,
                                d \in DayToks, mo \in MonthToks}

\* weekday restricted, any day of month
WeekdayExprs ==
    {Expr(mi, h, Star, mo, wd) : mi \in MinuteToks, h \in HourToks,
                                 mo \in {Star, Val(2)}, wd \in WeekdayToks}

\* day-of-month and weekday both restricted
BothExprs ==
    {Expr(Val(0), Val(9), d, Star, wd) : d \in {Val(1), Val(13)},
                                         wd \in {Range(1, 5), Val(0)}}

\* expressions the parser has to reject
BadExprs ==
    { <<Star, Star, Star, Star>>,
      <<Star, Star, Star, Star, Star, Star>>,
      Expr(Val(60), Star, Star, Star, Star),
      Expr(Star, Val(24), Star, Star, Star),
      Expr(Star, Star, Val(0), Star, Star),
      Expr(Star, Star, Star, Val(13), Star),
      Expr(Star, Star, Star, Star, Val(7)),
      Expr(Star, Star, Star, Star, Range(5, 1)),
      Expr(Step(0), Star, Star, Star, Star),
      Expr(List2(5, 61), Star, Star, Star, Star),
      Expr(FromStep(10, 15), Star, Star, Star, Star),
      Expr(Word, Star, Star, Star, Star) }

\* expressions with a token that is none of the documented forms
MalformedExprs ==
    { Expr(WordStep(20), Star, Star, Star, Star),
      Expr(Star, Star, Star, Star, WordStep(2)) }

CronExprs ==
    DateExprs \cup WeekdayExprs \cup BothExprs \cup BadExprs \cup MalformedExprs

Time(y, mo, d, h, mi, s) ==
    [year |-> y, month |-> mo, day |-> d, hour |-> h, minute |-> mi, second |-> s]

NoTime == Time(0, 0, 0, 0, 0, 0)

BaseTimes ==
    { Time(2024, 1, 1, 0, 0, 0),      \* a Monday
      Time(2024, 1, 1, 8, 59, 30),
      Time(2024, 1, 5, 9, 0, 0),      \* a Friday
      Time(2024, 1, 6, 12, 0, 0),     \* a Saturday
      Time(2024, 2, 28, 23, 59, 0),
      Time(2024, 2, 29, 23, 59, 30),
      Time(2024, 4, 30, 22, 15, 0),
      Time(2024, 12, 31, 23, 59, 30),
      Time(2025, 1, 31, 9, 0, 0),
      Time(2025, 2, 28, 23, 59, 0),
      Time(2025, 6, 15, 10, 20, 30),
      Time(2025, 12, 31, 23, 59, 0) }

(***************************************************************************)
(* CronParser.__init__ and CronParser.get_next_run_time.                   *)
(***************************************************************************)

InitCron ==
    /\ cron_expression \in CronExprs
    /\ cron = NoCron
    /\ base_time = NoTime
    /\ next_time = NoTime
    /\ cron_pc = "new"

\* CronParser.__init__: parse, or raise ValueError and build no parser
CronParserInit ==
    /\ UNCHANGED notCron
    /\ cron_pc = "new"
    /\ LET parsed == ParseExpression(cron_expression)
       IN IF parsed.ok
          THEN cron' = parsed.sets /\ cron_pc' = "parsed"
          ELSE cron' = cron /\ cron_pc' = "rejected"
    /\ UNCHANGED <<cron_expression, base_time, next_time>>

\* get_next_run_time(base_time): start from the next whole minute
GetNextRunTime ==
    /\ UNCHANGED notCron
    /\ cron_pc = "parsed"
    /\ \E t \in BaseTimes :
        /\ base_time' = t
        /\ LET floor == [t EXCEPT !.second = 0]
           IN IF MinuteOverflows(floor)
              THEN next_time' = next_time /\ cron_pc' = "raised"
              ELSE next_time' = AddMinute(floor) /\ cron_pc' = "loop"
    /\ UNCHANGED <<cron_expression, cron>>

\* the month is not in the month set: first day of the next month, 00:00
CheckMonth ==
    /\ UNCHANGED notCron
    /\ cron_pc = "loop"
    /\ next_time.month \notin cron.month
    /\ IF next_time.month = 12
       THEN IF next_time.year = MAXYEAR
            THEN next_time' = next_time /\ cron_pc' = "raised"
            ELSE /\ next_time' = [next_time EXCEPT !.year = next_time.year + 1,
                                    !.month = 1, !.day = 1, !.hour = 0, !.minute = 0]
                 /\ cron_pc' = "loop"
       ELSE /\ next_time' = [next_time EXCEPT !.month = next_time.month + 1,
                               !.day = 1, !.hour = 0, !.minute = 0]
            /\ cron_pc' = "loop"
    /\ UNCHANGED <<cron_expression, cron, base_time>>

\* next_time + timedelta(days=1), then replace(hour=0, minute=0)
NextDay ==
    IF DayOverflows(next_time)
    THEN next_time' = next_time /\ cron_pc' = "raised"
    ELSE /\ next_time' = [AddDay(next_time) EXCEPT !.hour = 0, !.minute = 0]
         /\ cron_pc' = "loop"

\* the day of month is not in the day set: the next day, 00:00
CheckDay ==
    /\ UNCHANGED notCron
    /\ cron_pc = "loop"
    /\ next_time.month \in cron.month
    /\ next_time.day \notin cron.day
    /\ NextDay
    /\ UNCHANGED <<cron_expression, cron, base_time>>

\* next_time.weekday() is not in the weekday set: the next day, 00:00
CheckWeekday ==
    /\ UNCHANGED notCron
    /\ cron_pc = "loop"
    /\ next_time.month \in cron.month
    /\ next_time.day \in cron.day
    /\ PyWeekday(next_time) \notin cron.weekday
    /\ NextDay
    /\ UNCHANGED <<cron_expression, cron, base_time>>

DateMatches ==
    /\ next_time.month \in cron.month
    /\ next_time.day \in cron.day
    /\ PyWeekday(next_time) \in cron.weekday

\* the hour is not in the hour set: the next hour, minute 0
CheckHour ==
    /\ UNCHANGED notCron
    /\ cron_pc = "loop"
    /\ DateMatches
    /\ next_time.hour \notin cron.hour
    /\ IF HourOverflows(next_time)
       THEN next_time' = next_time /\ cron_pc' = "raised"
       ELSE /\ next_time' = [AddHour(next_time) EXCEPT !.minute = 0]
            /\ cron_pc' = "loop"
    /\ UNCHANGED <<cron_expression, cron, base_time>>

Min(S) == CHOOSE x \in S : \A y \in S : x <= y

\* the minute is not in the minute set: the next member of the set in this
\* hour, or the first member in the next hour
CheckMinute ==
    /\ UNCHANGED notCron
    /\ cron_pc = "loop"
    /\ DateMatches
    /\ next_time.hour \in cron.hour
    /\ next_time.minute \notin cron.minute
    /\ LET valid_minutes == {m \in cron.minute : m > next_time.minute}
       IN IF valid_minutes # {}
          THEN /\ next_time' = [next_time EXCEPT !.minute = Min(valid_minutes)]
               /\ cron_pc' = "loop"
          ELSE IF HourOverflows(next_time)
          THEN next_time' = next_time /\ cron_pc' = "raised"
          ELSE /\ next_time' = [AddHour(next_time) EXCEPT !.minute = Min(cron.minute)]
               /\ cron_pc' = "loop"
    /\ UNCHANGED <<cron_expression, cron, base_time>>

\* every field is in its set: return next_time
ReturnNextTime ==
    /\ UNCHANGED notCron
    /\ cron_pc = "loop"
    /\ DateMatches
    /\ next_time.hour \in cron.hour
    /\ next_time.minute \in cron.minute
    /\ cron_pc' = "returned"
    /\ UNCHANGED <<cron_expression, cron, base_time, next_time>>

NextCron ==
    \/ CronParserInit
    \/ GetNextRunTime
    \/ CheckMonth
    \/ CheckDay
    \/ CheckWeekday
    \/ CheckHour
    \/ CheckMinute
    \/ ReturnNextTime

(***************************************************************************)
(* Properties of the cron evaluator.                                       *)
(***************************************************************************)

\* The weekday of an instant in the numbering of the weekday field
\* (0 = Sunday, 1 = Monday, ..., 6 = Saturday).
CronWeekday(t) == (PyWeekday(t) + 1) % 7

\* C1: the instant get_next_run_time returns is strictly after the base
\* instant, has second 0, and has its minute, hour, day of month, month and
\* weekday (0 = Sunday) in the parsed sets.
C1_ReturnedInstantMatches ==
    cron_pc = "returned" =>
        /\ MinuteIndex(next_time) > MinuteIndex(base_time)
        /\ next_time.second = 0
        /\ next_time.minute \in cron.minute
        /\ next_time.hour \in cron.hour
        /\ next_time.day \in cron.day
        /\ next_time.month \in cron.month
        /\ CronWeekday(next_time) \in cron.weekday

\* the calendar dates of the modelled years
AllDates ==
    {dt \in [year : 2024 .. MAXYEAR, month : 1 .. 12, day : 1 .. 31] :
        dt.day <= DaysInMonth(dt.year, dt.month)}

At(dt, h, m) == Time(dt.year, dt.month, dt.day, h, m, 0)

\* C2: no minute-aligned instant strictly between the base instant and the
\* returned instant has all five fields (weekday: 0 = Sunday) in the parsed
\* sets, so the returned instant is the smallest matching one.
C2_ReturnedInstantIsSmallest ==
    cron_pc = "returned" =>
        \A dt \in AllDates :
            ( /\ ToOrdinal(dt) >= ToOrdinal(base_time)
              /\ ToOrdinal(dt) <= ToOrdinal(next_time)
              /\ dt.month \in cron.month
              /\ dt.day \in cron.day
              /\ CronWeekday(dt) \in cron.weekday )
            => \A h \in cron.hour, m \in cron.minute :
                  ~ ( /\ MinuteIndex(At(dt, h, m)) > MinuteIndex(base_time)
                      /\ MinuteIndex(At(dt, h, m)) < MinuteIndex(next_time) )

\* C3: for every accepted expression and base instant the search returns an
\* instant: it never ends by raising.
C3_SearchReturns == cron_pc # "raised"

\* C4: with the weekday field 1-5 every returned instant falls on Monday to
\* Friday (weekday 1..5 when 0 = Sunday), never on a Saturday or Sunday.
C4_WeekdayFieldIsSundayBased ==
    (cron_pc = "returned" /\ cron_expression[5] = Range(1, 5)) =>
        CronWeekday(next_time) \in 1 .. 5

\* the bounds of the five fields, in the order of the expression
FieldMin == <<0, 0, 1, 1, 0>>

FieldMax == <<59, 23, 31, 12, 6>>

\* a token that is one of the documented forms with its numbers in the bounds
WellFormedToken(tok, lo, hi) ==
    \/ tok.kind = "star"
    \/ tok.kind = "val" /\ tok.a \in lo .. hi
    \/ tok.kind = "range" /\ tok.a \in lo .. hi /\ tok.b \in lo .. hi /\ tok.a <= tok.b
    \/ tok.kind = "list" /\ tok.a \in lo .. hi /\ tok.b \in lo .. hi
    \/ tok.kind = "step" /\ tok.a > 0
    \/ tok.kind = "fromstep" /\ tok.a \in lo .. hi /\ tok.b > 0

WellFormed(parts) ==
    /\ Len(parts) = 5
    /\ \A i \in 1 .. 5 : WellFormedToken(parts[i], FieldMin[i], FieldMax[i])

ParserBuilt == cron_pc \in {"parsed", "loop", "returned", "raised"}

\* C25: the parser builds no CronParser for an expression that does not have
\* exactly five fields or has a value outside its field's bounds, a range
\* a-b with a > b, a step n <= 0 or a token that is not numeric; the five
\* sets of every parser it builds are non-empty and within the bounds.
C25_RejectsMalformed ==
    /\ cron_pc = "rejected" => cron = NoCron
    /\ ParserBuilt => WellFormed(cron_expression)
    /\ ParserBuilt =>
        /\ cron.minute # {} /\ cron.minute \subseteq 0 .. 59
        /\ cron.hour # {} /\ cron.hour \subseteq 0 .. 23
        /\ cron.day # {} /\ cron.day \subseteq 1 .. 31
        /\ cron.month # {} /\ cron.month \subseteq 1 .. 12
        /\ cron.weekday # {} /\ cron.weekday \subseteq 0 .. 6

\* the values a token of a documented form stands for in the bounds lo..hi
TokenValues(tok, lo, hi) ==
    IF tok.kind = "star" THEN lo .. hi
    ELSE IF tok.kind = "val" THEN {tok.a}
    ELSE IF tok.kind = "range" THEN tok.a .. tok.b
    ELSE IF tok.kind = "list" THEN {tok.a, tok.b}
    ELSE IF tok.kind = "step" THEN {v \in lo .. hi : (v - lo) % tok.a = 0}
    ELSE {v \in tok.a .. hi : (v - tok.a) % tok.b = 0}

\* C26: an expression whose five tokens are each '*', an integer, a comma
\* list, a range a-b, a step '*/n' or a step 'a/n' within the bounds is
\* accepted, and each field's set is the set the token stands for ('a/n':
\* a, a+n, ... up to the field's maximum).
C26_EveryFormAccepted ==
    (cron_pc # "new" /\ WellFormed(cron_expression)) =>
        /\ ParserBuilt
        /\ cron.minute = TokenValues(cron_expression[1], 0, 59)
        /\ cron.hour = TokenValues(cron_expression[2], 0, 23)
        /\ cron.day = TokenValues(cron_expression[3], 1, 31)
        /\ cron.month = TokenValues(cron_expression[4], 1, 12)
        /\ cron.weekday = TokenValues(cron_expression[5], 0, 6)

\* C27: when the day-of-month field and the weekday field are both
\* restricted, the returned instant has its day of month in the day set and
\* its weekday (0 = Sunday) in the weekday set: both hold, never only one.
C27_DayAndWeekdayBothHold ==
    ( /\ cron_pc = "returned"
      /\ cron_expression[3] # Star
      /\ cron_expression[5] # Star ) =>
        /\ next_time.day \in cron.day
        /\ CronWeekday(next_time) \in cron.weekday

(***************************************************************************)
(* The execution record (TaskExecution of _scheduler/task.py), the         *)
(* retrying executor of _scheduler/executor.py and the self-executing      *)
(* Task of _functions/task_executor.py.  A run exercises one of the two    *)
(* executors.                                                              *)
(***************************************************************************)

MaxRetries == 2

MaxClock == 2

MaxObjects == 2

\* None, for the optional times and the duration
NONE == -1

STATUS_WAITING == "waiting"
STATUS_RUNNING == "running"
STATUS_COMPLETED == "completed"
STATUS_FAILED == "failed"
STATUS_CANCELLED == "cancelled"

Terminal == {STATUS_COMPLETED, STATUS_FAILED, STATUS_CANCELLED}

\* TaskExecution.__init__
TE_new(serial, execution_id) ==
    [serial |-> serial, execution_id |-> execution_id, status |-> STATUS_WAITING,
     start_time |-> NONE, end_time |-> NONE, duration |-> NONE,
     result |-> "None", error_message |-> "None", retry_count |-> 0,
     log_path |-> "None"]

\* TaskExecution.start
TE_start(e, t) == [e EXCEPT !.status = STATUS_RUNNING, !.start_time = t]

\* the duration both complete, fail and cancel compute, when start_time is set
TE_duration(e, t) == IF e.start_time # NONE THEN t - e.start_time ELSE e.duration

\* TaskExecution.complete
TE_complete(e, t, result) ==
    [e EXCEPT !.status = STATUS_COMPLETED, !.end_time = t, !.result = result,
              !.duration = TE_duration(e, t)]

\* a fail that forgets the end time and the duration
TE_fail_NoEndTime(e, t, error_message) ==
    [e EXCEPT !.status = STATUS_FAILED, !.error_message = error_message]

\* TaskExecution.fail
TE_fail(e, t, error_message) ==
    [e EXCEPT !.status = STATUS_FAILED, !.end_time = t,
              !.error_message = error_message, !.duration = TE_duration(e, t)]

\* TaskExecution.cancel
TE_cancel(e, t) ==
    [e EXCEPT !.status = STATUS_CANCELLED, !.end_time = t,
              !.duration = TE_duration(e, t)]

\* a loop that stops one pass early
LoopCond_Strict(rc, maxr) == rc < maxr

\* the while condition of both executing loops
LoopCond(rc, maxr) == rc <= maxr

\* a retry test that gives up one retry early
CanRetry_OneLess(rc, maxr) == rc + 1 < maxr

\* a retry test that lets every failed attempt be followed by another
CanRetry_Always(rc, maxr) == TRUE

\* the retry test of both executing loops
CanRetry(rc, maxr) == rc < maxr

\* how an invocation of the work can fail
FailureKinds == {"nonzero", "timeout", "raise"}

\* state of a functions Task after __init__
FT_new ==
    [status |-> "waiting", result |-> "None", error_message |-> "",
     execution_time |-> NONE, execution_duration |-> 0, retry_count |-> 0,
     log |-> <<>>]

NoExecution == TE_new(0, 0)

InitExec ==
    /\ impl \in {"scheduler", "functions"}
    /\ max_retries \in -1 .. MaxRetries
    /\ retry_interval \in {0, 1}
    /\ work_plan = 0
    /\ execution = NoExecution
    /\ log_file = <<>>
    /\ created = 0
    /\ ftask = FT_new
    /\ retry_count = 0
    /\ invocations = 0
    /\ backoffs = 0
    /\ now = 0
    /\ ex_pc = "idle"

\* time passes
Tick ==
    /\ UNCHANGED notExec
    /\ now < MaxClock
    /\ now' = now + 1
    /\ UNCHANGED <<impl, max_retries, retry_interval, work_plan, execution, log_file,
                   created, ftask, retry_count, invocations, backoffs, ex_pc>>

\* TaskExecutor.execute_immediately up to the loop: a new TaskExecution named
\* by the task id and the second of the clock, then execute_task's prologue
ExecuteImmediately ==
    /\ UNCHANGED notExec
    /\ impl = "scheduler"
    /\ ex_pc \in {"idle", "returned"}
    /\ created < MaxObjects
    /\ created' = created + 1
    /\ \E k \in 0 .. MaxRetries + 1 : work_plan' = k
    /\ execution' = [TE_start(TE_new(created + 1, now), now) EXCEPT !.log_path = "log"]
    /\ retry_count' = 0
    /\ invocations' = 0
    /\ backoffs' = 0
    /\ ex_pc' = "loop"
    /\ UNCHANGED <<impl, max_retries, retry_interval, log_file, ftask, now>>

\* TaskExecutor.execute_task(task, execution) called with the TaskExecution at
\* hand: execution.start(), the log path, retry_count = 0
ExecuteTask ==
    /\ UNCHANGED notExec
    /\ impl = "scheduler"
    /\ ex_pc \in {"idle", "returned"}
    /\ created > 0
    /\ \E k \in 0 .. MaxRetries + 1 : work_plan' = k
    /\ execution' = [TE_start(execution, now) EXCEPT !.log_path = "log"]
    /\ retry_count' = 0
    /\ invocations' = 0
    /\ backoffs' = 0
    /\ ex_pc' = "loop"
    /\ UNCHANGED <<impl, max_retries, retry_interval, log_file, created, ftask, now>>

\* what _execute_script leaves in the log file: open(log_file, 'w') truncates
\* it, then one entry is written; "raise" is the open itself failing
ScriptLog(kind) == IF kind = "raise" THEN log_file ELSE <<kind>>

\* one pass of execute_task's loop where the script returns code 0
AttemptSucceeds ==
    /\ UNCHANGED notExec
    /\ impl = "scheduler"
    /\ ex_pc = "loop"
    /\ LoopCond(retry_count, max_retries)
    /\ invocations >= work_plan
    /\ invocations' = invocations + 1
    /\ log_file' = ScriptLog("ok")
    /\ execution' = [TE_complete(execution, now, "success") EXCEPT
                        !.retry_count = retry_count]
    /\ ex_pc' = "returned"
    /\ UNCHANGED <<impl, max_retries, retry_interval, work_plan, created, ftask,
                   retry_count, backoffs, now>>

\* one pass of execute_task's loop where the script fails (nonzero code, or a
\* timeout or an error running it, both code -1) or an exception reaches
\* execute_task
AttemptFails ==
    /\ UNCHANGED notExec
    /\ impl = "scheduler"
    /\ ex_pc = "loop"
    /\ LoopCond(retry_count, max_retries)
    /\ invocations < work_plan
    /\ invocations' = invocations + 1
    /\ \E kind \in FailureKinds :
        /\ log_file' = ScriptLog(kind)
        /\ IF CanRetry(retry_count, max_retries)
           THEN /\ retry_count' = retry_count + 1
                /\ execution' = execution
                /\ ex_pc' = "loop"
           ELSE /\ retry_count' = retry_count
                /\ execution' = [TE_fail(execution, now, kind) EXCEPT
                                    !.retry_count = retry_count]
                /\ ex_pc' = "returned"
    /\ UNCHANGED <<impl, max_retries, retry_interval, work_plan, created, ftask,
                   backoffs, now>>

\* the while condition is false: return the execution as it is
LoopExit ==
    /\ UNCHANGED notExec
    /\ ex_pc = "loop"
    /\ ~ LoopCond(retry_count, max_retries)
    /\ ex_pc' = "returned"
    /\ UNCHANGED <<impl, max_retries, retry_interval, work_plan, execution, log_file,
                   created, ftask, retry_count, invocations, backoffs, now>>

\* a caller holding the TaskExecution calls one of its methods
RecordStart ==
    /\ UNCHANGED notExec
    /\ impl = "scheduler"
    /\ ex_pc \in {"idle", "returned"}
    /\ created > 0
    /\ execution' = TE_start(execution, now)
    /\ ex_pc' = "idle"
    /\ UNCHANGED <<impl, max_retries, retry_interval, work_plan, log_file, created,
                   ftask, retry_count, invocations, backoffs, now>>

RecordComplete ==
    /\ UNCHANGED notExec
    /\ impl = "scheduler"
    /\ ex_pc \in {"idle", "returned"}
    /\ created > 0
    /\ execution' = TE_complete(execution, now, "success")
    /\ ex_pc' = "idle"
    /\ UNCHANGED <<impl, max_retries, retry_interval, work_plan, log_file, created,
                   ftask, retry_count, invocations, backoffs, now>>

RecordFail ==
    /\ UNCHANGED notExec
    /\ impl = "scheduler"
    /\ ex_pc \in {"idle", "returned"}
    /\ created > 0
    /\ execution' = TE_fail(execution, now, "error")
    /\ ex_pc' = "idle"
    /\ UNCHANGED <<impl, max_retries, retry_interval, work_plan, log_file, created,
                   ftask, retry_count, invocations, backoffs, now>>

RecordCancel ==
    /\ UNCHANGED notExec
    /\ impl = "scheduler"
    /\ ex_pc \in {"idle", "returned"}
    /\ created > 0
    /\ execution' = TE_cancel(execution, now)
    /\ ex_pc' = "idle"
    /\ UNCHANGED <<impl, max_retries, retry_interval, work_plan, log_file, created,
                   ftask, retry_count, invocations, backoffs, now>>

\* a caller constructs a TaskExecution without running it
RecordNew ==
    /\ UNCHANGED notExec
    /\ impl = "scheduler"
    /\ ex_pc \in {"idle", "returned"}
    /\ created < MaxObjects
    /\ created' = created + 1
    /\ execution' = TE_new(created + 1, now)
    /\ ex_pc' = "idle"
    /\ UNCHANGED <<impl, max_retries, retry_interval, work_plan, log_file, ftask,
                   retry_count, invocations, backoffs, now>>

\* Task.execute of _functions/task_executor.py up to the loop: the task
\* itself becomes running, its execution time and log start anew
FT_Execute ==
    /\ UNCHANGED notExec
    /\ impl = "functions"
    /\ ex_pc \in {"idle", "returned"}
    /\ \E k \in 0 .. MaxRetries + 1 : work_plan' = k
    /\ ftask' = [ftask EXCEPT !.status = "running", !.execution_time = now,
                              !.log = <<"start">>]
    /\ retry_count' = 0
    /\ invocations' = 0
    /\ backoffs' = 0
    /\ ex_pc' = "loop"
    /\ UNCHANGED <<impl, max_retries, retry_interval, execution, log_file, created, now>>

\* one pass of Task.execute's loop where func returns
FT_AttemptSucceeds ==
    /\ UNCHANGED notExec
    /\ impl = "functions"
    /\ ex_pc = "loop"
    /\ LoopCond(retry_count, max_retries)
    /\ invocations >= work_plan
    /\ invocations' = invocations + 1
    /\ ftask' = [ftask EXCEPT !.result = "success",
                              !.execution_duration = now - ftask.execution_time,
                              !.status = "completed",
                              !.log = ftask.log \o <<"attempt", "ok">>,
                              !.retry_count = retry_count]
    /\ ex_pc' = "returned"
    /\ UNCHANGED <<impl, max_retries, retry_interval, work_plan, execution, log_file,
                   created, retry_count, backoffs, now>>

\* one pass of Task.execute's loop where func raises
FT_AttemptFails ==
    /\ UNCHANGED notExec
    /\ impl = "functions"
    /\ ex_pc = "loop"
    /\ LoopCond(retry_count, max_retries)
    /\ invocations < work_plan
    /\ invocations' = invocations + 1
    /\ IF CanRetry(retry_count, max_retries)
       THEN /\ ftask' = [ftask EXCEPT !.error_message = "raise",
                                      !.log = ftask.log \o <<"attempt", "raise", "retry">>]
            /\ ex_pc' = "backoff"
       ELSE /\ ftask' = [ftask EXCEPT !.error_message = "raise",
                                      !.log = ftask.log \o <<"attempt", "raise">>,
                                      !.execution_duration = now - ftask.execution_time,
                                      !.status = "failed",
                                      !.retry_count = retry_count]
            /\ ex_pc' = "returned"
    /\ UNCHANGED <<impl, max_retries, retry_interval, work_plan, execution, log_file,
                   created, retry_count, backoffs, now>>

\* time.sleep(retry_interval), then retry_count += 1
FT_Backoff ==
    /\ UNCHANGED notExec
    /\ impl = "functions"
    /\ ex_pc = "backoff"
    /\ now' = IF now + retry_interval > MaxClock THEN MaxClock ELSE now + retry_interval
    /\ backoffs' = backoffs + 1
    /\ retry_count' = retry_count + 1
    /\ ex_pc' = "loop"
    /\ UNCHANGED <<impl, max_retries, retry_interval, work_plan, execution, log_file,
                   created, ftask, invocations>>

NextExec ==
    \/ Tick
    \/ ExecuteImmediately
    \/ ExecuteTask
    \/ AttemptSucceeds
    \/ AttemptFails
    \/ LoopExit
    \/ RecordStart
    \/ RecordComplete
    \/ RecordFail
    \/ RecordCancel
    \/ RecordNew
    \/ FT_Execute
    \/ FT_AttemptSucceeds
    \/ FT_AttemptFails
    \/ FT_Backoff

(***************************************************************************)
(* Properties of the executors and of the execution record.                *)
(***************************************************************************)

\* the status and the retry count the run under way has recorded
RunStatus == IF impl = "scheduler" THEN execution.status ELSE ftask.status

RunRetryCount == IF impl = "scheduler" THEN execution.retry_count ELSE ftask.retry_count

\* C5: a call for a task with max retries N >= 0 whose work fails on every
\* invocation returns after exactly N + 1 invocations with status failed and
\* retry count N.
C5_AlwaysFailingWork ==
    (ex_pc = "returned" /\ max_retries >= 0 /\ work_plan > max_retries) =>
        /\ invocations = max_retries + 1
        /\ RunStatus = STATUS_FAILED
        /\ RunRetryCount = max_retries

C5_Witness ==
    /\ impl = "scheduler"
    /\ ex_pc = "returned"
    /\ max_retries = 2
    /\ work_plan > max_retries
    /\ invocations = 3
    /\ execution.status = STATUS_FAILED
    /\ execution.retry_count = 2

\* C6: a call for a task with max retries N whose work fails on its first
\* k <= N invocations and then succeeds returns with status completed and
\* retry count k after exactly k + 1 invocations.
C6_FailsThenSucceeds ==
    (ex_pc = "returned" /\ max_retries >= 0 /\ work_plan <= max_retries) =>
        /\ RunStatus = STATUS_COMPLETED
        /\ RunRetryCount = work_plan
        /\ invocations = work_plan + 1

C6_Witness ==
    /\ impl = "functions"
    /\ ex_pc = "returned"
    /\ max_retries = 2
    /\ work_plan = 2
    /\ invocations = 3
    /\ ftask.status = "completed"
    /\ ftask.retry_count = 2

\* C7: for max retries >= 0 the record execute_task returns is completed or
\* failed, never waiting or running, and has its end time and duration set.
C7_ReturnsTerminalRecord ==
    (impl = "scheduler" /\ ex_pc = "returned" /\ max_retries >= 0) =>
        /\ execution.status \in {STATUS_COMPLETED, STATUS_FAILED}
        /\ execution.end_time # NONE
        /\ execution.duration # NONE

C7_Witness ==
    /\ impl = "scheduler"
    /\ ex_pc = "returned"
    /\ max_retries >= 0
    /\ invocations = max_retries + 1
    /\ execution.status = STATUS_FAILED
    /\ execution.end_time # NONE

\* C8: once the status of an execution is completed, failed or cancelled, no
\* later step changes it: no method of the record and no re-run of the task.
C8_TerminalIsFinal ==
    [][ /\ ( /\ impl = "scheduler"
             /\ execution.status \in Terminal
             /\ execution'.serial = execution.serial )
           => execution'.status = execution.status
        /\ (impl = "functions" /\ ftask.status \in Terminal)
           => ftask'.status = ftask.status ]_vars

\* what C9 requires of a record in every state
TimesAgreeWithStatus(e) ==
    /\ (e.end_time # NONE) <=> (e.status \in Terminal)
    /\ (e.duration # NONE) => (e.start_time # NONE /\ e.end_time # NONE)

\* C9: the start time of a record is written once, on waiting -> running; its
\* end time and duration are written once, on running -> terminal; in every
\* state the end time is set iff the status is terminal and the duration is
\* set only when start and end time are.
C9_TimesWrittenOnce ==
    [][ /\ (execution'.serial = execution.serial) =>
            /\ (execution'.start_time # execution.start_time) =>
                  /\ execution.status = STATUS_WAITING
                  /\ execution'.status = STATUS_RUNNING
                  /\ execution.start_time = NONE
            /\ ( \/ execution'.end_time # execution.end_time
                 \/ execution'.duration # execution.duration ) =>
                  /\ execution.status = STATUS_RUNNING
                  /\ execution'.status \in Terminal
                  /\ execution.end_time = NONE
        /\ TimesAgreeWithStatus(execution') ]_vars

\* what the log of the run under way holds: the log file of the scheduler
\* executor, the log text a functions Task collects
RunLog == IF impl = "scheduler" THEN log_file ELSE ftask.log

\* C23: every attempt after the first of a run leaves in the log what the
\* earlier attempts of the run wrote there, so that the log of a run of A
\* attempts holds the output of all A of them.
C23_LogKeepsEveryAttempt ==
    [][(invocations >= 1 /\ invocations' = invocations + 1) =>
          /\ Len(RunLog') >= Len(RunLog)
          /\ SubSeq(RunLog', 1, Len(RunLog)) = RunLog]_vars

\* C32: execution ids are unique: a run started by execute_immediately never
\* carries the id of the run the executor started before it, however close
\* together the two are started.
C32_ExecutionIdsUnique ==
    [][(impl = "scheduler" /\ created >= 1 /\ created' = created + 1 /\ ex_pc' = "loop") =>
          execution'.execution_id # execution.execution_id]_vars

\* C34: a run that has returned after A >= 1 attempts has waited A - 1 times:
\* once between each failed attempt and the attempt after it, and not after
\* the last attempt.
C34_WaitsBetweenAttempts ==
    (ex_pc = "returned" /\ max_retries >= 0 /\ invocations >= 1) =>
        backoffs = invocations - 1

\* C35: within one run for a task with max retries >= 0 the retry counter
\* stays within 0 .. max retries; attempts are sequential, so the attempts
\* started are the counter while the next attempt is due and the counter + 1
\* once it has run; the count the run records is the retries it consumed.
C35_AttemptsBounded ==
    (max_retries >= 0 /\ ex_pc \in {"loop", "backoff", "returned"}) =>
        /\ 0 <= retry_count
        /\ retry_count <= max_retries
        /\ ex_pc = "loop" => invocations = retry_count
        /\ ex_pc \in {"backoff", "returned"} => invocations = retry_count + 1
        /\ ex_pc = "returned" => RunRetryCount = retry_count

C35_Witness ==
    /\ ex_pc = "returned"
    /\ max_retries = 2
    /\ retry_count = 1
    /\ invocations = 2
    /\ RunStatus = STATUS_COMPLETED
    /\ RunRetryCount = 1

(***************************************************************************)
(* The task registries: TaskManager of _functions/task_manager.py, which   *)
(* mirrors its tasks to a file, and the tasks of TaskExecutor of           *)
(* _functions/task_executor.py, which are kept in memory only.             *)
(***************************************************************************)

MaxTasks == 2

MaxIOFailures == 1

Names == {"a", "b"}

Keys == 1 .. MaxTasks

EmptyMap == [k \in {} |-> 0]

Put(f, k, v) == [x \in DOMAIN f \cup {k} |-> IF x = k THEN v ELSE f[x]]

Remove(f, k) == [x \in DOMAIN f \ {k} |-> f[x]]

\* Task.__init__ of _functions/task_manager.py (script_path, args and
\* description are carried like name)
MgrTask(task_id, name, enabled) ==
    [task_id |-> task_id, name |-> name, enabled |-> enabled]

\* Task.to_dict
MgrToDict(t) == [task_id |-> t.task_id, name |-> t.name, enabled |-> t.enabled]

\* Task.from_dict
MgrFromDict(d) == MgrTask(d.task_id, d.name, d.enabled)

\* [task.to_dict() for task in self.tasks.values()], listed by ascending key
RECURSIVE TasksData(_)
TasksData(tasks) ==
    IF DOMAIN tasks = {} THEN <<>>
    ELSE LET k == CHOOSE x \in DOMAIN tasks : \A y \in DOMAIN tasks : x <= y
         IN <<MgrToDict(tasks[k])>> \o TasksData(Remove(tasks, k))

NoFile == [state |-> "absent", tasks |-> <<>>]

\* TaskManager.save_tasks: open(config_path, 'w') and json.dump; an exception
\* is printed and swallowed.  io: the write succeeds, open fails (the file is
\* left as it was), or the dump fails after open truncated the file.
SaveTasks(tasks, file, io) ==
    IF io = "ok" THEN [state |-> "written", tasks |-> TasksData(tasks)]
    ELSE IF io = "open_fails" THEN file
    ELSE [state |-> "partial", tasks |-> <<>>]

IOOutcomes ==
    IF io_failures < MaxIOFailures THEN {"ok", "open_fails", "write_fails"} ELSE {"ok"}

IOCount(io) == IF io = "ok" THEN io_failures ELSE io_failures + 1

\* TaskManager.load_tasks: nothing when the file is absent, a file that does
\* not decode is ignored, else every entry is stored under its task_id
RECURSIVE LoadTasks(_, _)
LoadTasks(tasks, data) ==
    IF data = <<>> THEN tasks
    ELSE LoadTasks(Put(tasks, Head(data).task_id, MgrFromDict(Head(data))), Tail(data))

Called(who, op, ok) == [who |-> who, op |-> op, ok |-> ok]

InitReg ==
    /\ mgr_tasks = EmptyMap
    /\ mgr_file = NoFile
    /\ mgr_pc = "ready"
    /\ fx_tasks = {}
    /\ fx_ids = {}
    /\ io_failures = 0
    /\ reg_last = Called("none", "init", TRUE)

\* TaskManager.__init__ in a new process: load_tasks from the file
MgrRestart ==
    /\ UNCHANGED notReg
    /\ mgr_tasks' = IF mgr_file.state = "written"
                    THEN LoadTasks(EmptyMap, mgr_file.tasks)
                    ELSE EmptyMap
    /\ mgr_pc' = "ready"
    /\ reg_last' = Called("mgr", "load", TRUE)
    /\ UNCHANGED <<mgr_file, fx_tasks, fx_ids, io_failures>>

\* TaskManager.add_task: the id is task_<len + 1>; while that id is taken the
\* loop assigns the same id again and never ends
MgrAddTask ==
    /\ UNCHANGED notReg
    /\ mgr_pc = "ready"
    /\ Cardinality(DOMAIN mgr_tasks) < MaxTasks
    /\ LET task_id == Cardinality(DOMAIN mgr_tasks) + 1
       IN IF task_id \in DOMAIN mgr_tasks
          THEN /\ mgr_pc' = "spinning"
               /\ UNCHANGED <<mgr_tasks, mgr_file, io_failures, reg_last>>
          ELSE \E name \in Names, io \in IOOutcomes :
                /\ mgr_tasks' = Put(mgr_tasks, task_id, MgrTask(task_id, name, TRUE))
                /\ mgr_file' = SaveTasks(mgr_tasks', mgr_file, io)
                /\ io_failures' = IOCount(io)
                /\ mgr_pc' = "ready"
                /\ reg_last' = Called("mgr", "add", TRUE)
    /\ UNCHANGED <<fx_tasks, fx_ids>>

\* the while loop of add_task goes round
MgrAddTaskSpin ==
    /\ UNCHANGED notReg
    /\ mgr_pc = "spinning"
    /\ UNCHANGED regVars

PatchAttrs == {"name", "enabled", "task_id", "cron"}

PatchValues(attr) ==
    IF attr = "name" THEN Names
    ELSE IF attr = "enabled" THEN BOOLEAN
    ELSE IF attr = "task_id" THEN Keys
    ELSE {"* * * * *"}

\* a keyword that never reaches the body of update_task
KeywordCollides_Never(attr) == FALSE

\* update_task(task_id, **kwargs): the keyword task_id names the positional
\* parameter, so a call that passes it raises TypeError before the body runs
KeywordCollides(attr) == attr = "task_id"

\* setattr(task, key, value) if hasattr(task, key)
SetAttr(t, attr, value) ==
    IF attr = "name" THEN [t EXCEPT !.name = value]
    ELSE IF attr = "enabled" THEN [t EXCEPT !.enabled = value]
    ELSE IF attr = "task_id" THEN [t EXCEPT !.task_id = value]
    ELSE t

\* TaskManager.update_task(task_id, **{attr: value})
MgrUpdateTask ==
    /\ UNCHANGED notReg
    /\ mgr_pc = "ready"
    /\ \E task_id \in Keys :
        IF task_id \notin DOMAIN mgr_tasks
        THEN /\ reg_last' = Called("mgr", "update", FALSE)
             /\ UNCHANGED <<mgr_tasks, mgr_file, io_failures>>
        ELSE \E attr \in PatchAttrs : \E value \in PatchValues(attr) :
             \E io \in IOOutcomes :
                IF KeywordCollides(attr)
                THEN /\ reg_last' = Called("mgr", "update", FALSE)
                     /\ UNCHANGED <<mgr_tasks, mgr_file, io_failures>>
                ELSE /\ mgr_tasks' = [mgr_tasks EXCEPT
                                    ![task_id] = SetAttr(mgr_tasks[task_id], attr, value)]
                     /\ mgr_file' = SaveTasks(mgr_tasks', mgr_file, io)
                     /\ io_failures' = IOCount(io)
                     /\ reg_last' = Called("mgr", "update", TRUE)
    /\ UNCHANGED <<mgr_pc, fx_tasks, fx_ids>>

\* TaskManager.delete_task
MgrDeleteTask ==
    /\ UNCHANGED notReg
    /\ mgr_pc = "ready"
    /\ \E task_id \in Keys :
        IF task_id \notin DOMAIN mgr_tasks
        THEN /\ reg_last' = Called("mgr", "delete", FALSE)
             /\ UNCHANGED <<mgr_tasks, mgr_file, io_failures>>
        ELSE \E io \in IOOutcomes :
                /\ mgr_tasks' = Remove(mgr_tasks, task_id)
                /\ mgr_file' = SaveTasks(mgr_tasks', mgr_file, io)
                /\ io_failures' = IOCount(io)
                /\ reg_last' = Called("mgr", "delete", TRUE)
    /\ UNCHANGED <<mgr_pc, fx_tasks, fx_ids>>

\* TaskManager.toggle_task
MgrToggleTask ==
    /\ UNCHANGED notReg
    /\ mgr_pc = "ready"
    /\ \E task_id \in Keys :
        IF task_id \notin DOMAIN mgr_tasks
        THEN /\ reg_last' = Called("mgr", "toggle", FALSE)
             /\ UNCHANGED <<mgr_tasks, mgr_file, io_failures>>
        ELSE \E io \in IOOutcomes :
                /\ mgr_tasks' = [mgr_tasks EXCEPT
                                    ![task_id].enabled = ~ mgr_tasks[task_id].enabled]
                /\ mgr_file' = SaveTasks(mgr_tasks', mgr_file, io)
                /\ io_failures' = IOCount(io)
                /\ reg_last' = Called("mgr", "toggle", TRUE)
    /\ UNCHANGED <<mgr_pc, fx_tasks, fx_ids>>

\* the tasks file of a TaskExecutor: add_task and remove_task write none
FxTasksFile == {}

\* TaskExecutor.add_task of _functions/task_executor.py: a uuid4 id, the task
\* is put in self.tasks
FxAddTask ==
    /\ UNCHANGED notReg
    /\ Cardinality(fx_ids) < MaxTasks
    /\ LET task_id == Cardinality(fx_ids) + 1
       IN /\ fx_ids' = fx_ids \cup {task_id}
          /\ fx_tasks' = fx_tasks \cup {task_id}
    /\ reg_last' = Called("fx", "add", TRUE)
    /\ UNCHANGED <<mgr_tasks, mgr_file, mgr_pc, io_failures>>

\* TaskExecutor.remove_task of _functions/task_executor.py
FxRemoveTask ==
    /\ UNCHANGED notReg
    /\ \E task_id \in Keys :
        IF task_id \in fx_tasks
        THEN /\ fx_tasks' = fx_tasks \ {task_id}
             /\ reg_last' = Called("fx", "remove", TRUE)
        ELSE /\ fx_tasks' = fx_tasks
             /\ reg_last' = Called("fx", "remove", FALSE)
    /\ UNCHANGED <<mgr_tasks, mgr_file, mgr_pc, fx_ids, io_failures>>

NextReg ==
    \/ MgrRestart
    \/ MgrAddTask
    \/ MgrAddTaskSpin
    \/ MgrUpdateTask
    \/ MgrDeleteTask
    \/ MgrToggleTask
    \/ FxAddTask
    \/ FxRemoveTask

(***************************************************************************)
(* Properties of the registries.                                           *)
(***************************************************************************)

\* C10: after every add, update, delete or toggle that returned success the
\* tasks file holds exactly the tasks, with their field values, of the
\* registry in memory.
C10_WriteThrough ==
    /\ ( /\ reg_last.who = "mgr"
         /\ reg_last.op \in {"add", "update", "delete", "toggle"}
         /\ reg_last.ok )
       => (mgr_file.state = "written" /\ mgr_file.tasks = TasksData(mgr_tasks))
    /\ ( /\ reg_last.who = "fx"
         /\ reg_last.op \in {"add", "remove"}
         /\ reg_last.ok )
       => FxTasksFile = fx_tasks

\* C22: when the write of the tasks file fails during an add, update, delete
\* or toggle, the call reports the failure and the registry in memory is the
\* one before the call, the last one that was persisted.
C22_FailedPersistIsNotApplied ==
    [][io_failures' > io_failures =>
          (mgr_tasks' = mgr_tasks /\ ~ reg_last'.ok)]_vars

\* C36: every TaskManager entry is stored under the key that is the id of
\* the task it holds, whatever update and toggle calls were made, and a step
\* that changes the set of registered ids is an add, a delete or a load.
C36_IdIsImmutable ==
    /\ [](\A k \in DOMAIN mgr_tasks : mgr_tasks[k].task_id = k)
    /\ [][DOMAIN mgr_tasks' # DOMAIN mgr_tasks =>
             reg_last'.op \in {"add", "delete", "load"}]_vars

\* an update has changed a field of a registered task and a toggle has
\* turned a task off, both returning success
C36_Witness ==
    /\ reg_last = Called("mgr", "toggle", TRUE)
    /\ \E k \in DOMAIN mgr_tasks : mgr_tasks[k].name = "b" /\ ~ mgr_tasks[k].enabled

\* C40: add_task never ends up in its id loop: every call returns.
C40_AddTaskTerminates == mgr_pc # "spinning"

(***************************************************************************)
(* The poll loops: TaskScheduler._scheduler_loop of                        *)
(* _scheduler/scheduler.py and TaskExecutor._cron_check_thread of          *)
(* _functions/task_executor.py, with the callers of start(), stop(), of    *)
(* the immediate run and of the registry while a loop is running.          *)
(***************************************************************************)

MaxThreads == 2

MaxUnits == 2

MaxTicks == 1

ThreadIds == 1 .. MaxThreads

UnitIds == 1 .. MaxUnits

\* "* * * * *": every field is the whole range
EveryMinute == Expr(Star, Star, Star, Star, Star)

\* "60 * * * *": the minute is out of range
BadMinute == Expr(Val(60), Star, Star, Star, Star)

\* no cron expression (None)
NoExpr == <<>>

PollExprs == {NoExpr, EveryMinute, BadMinute}

\* a task as the poll loops read it: cron_expression / cron_expr, enabled
\* (TaskScheduler only) and status (the functions Task only)
PollTask(expr, enabled) ==
    [cron_expression |-> expr, enabled |-> enabled, status |-> STATUS_WAITING]

\* a thread that was never created
NoThread == [pc |-> "none", todo |-> <<>>, size |-> 0, current_time |-> 0]

NoUnit == [task |-> 0, phase |-> "free"]

\* Thread.is_alive()
IsAlive(th) == threads[th].pc \notin {"none", "exited", "dead"}

\* list(self.tasks.values()) in key order
RECURSIVE KeyList(_)
KeyList(S) ==
    IF S = {} THEN <<>>
    ELSE LET k == CHOOSE x \in S : \A y \in S : x <= y
         IN <<k>> \o KeyList(S \ {k})

\* CronParser.get_next_run_time(base) for an expression whose five fields are
\* whole ranges: every check of the search passes at once and the search
\* returns the minute after base (minutes as the unit of time)
NextRunMinute(sets, base) == base + 1

\* the test of _scheduler_loop: the next run time counted from one minute
\* before current_time lies less than 60 seconds from current_time
SchedDue(expr, current_time) ==
    LET next_run_time == NextRunMinute(ParseExpression(expr).sets, current_time - 1)
    IN next_run_time - current_time < 1 /\ current_time - next_run_time < 1

\* croniter(expr, start_time): raises on an expression it does not accept
CroniterAccepts(expr) == ParseExpression(expr).ok

\* croniter(expr, start_time).get_next(datetime): the first matching instant
\* strictly after start_time
CroniterGetNext(expr, start_time) == start_time + 1

\* the test of _cron_check_thread
FxDue(expr, current_time) == CroniterGetNext(expr, current_time) <= current_time

\* a test that looks at the expression alone
SchedEligible_IgnoresEnabled(task) == task.cron_expression # NoExpr

\* 'if task.enabled and task.cron_expression' of _scheduler_loop
SchedEligible(task) == task.enabled /\ task.cron_expression # NoExpr

\* the next thread to create, the next execution to begin: the lowest free one
FreeThreads ==
    {th \in ThreadIds : /\ threads[th].pc = "none"
                        /\ \A o \in 1 .. th - 1 : threads[o].pc # "none"}

FreeUnits ==
    {u \in UnitIds : /\ units[u].phase = "free"
                     /\ \A o \in 1 .. u - 1 : units[o].phase # "free"}

InitPoll ==
    /\ p_impl \in {"scheduler", "functions"}
    /\ p_tasks = EmptyMap
    /\ p_used = {}
    /\ stop_flag = FALSE
    /\ scheduler_thread = 0
    /\ threads = [th \in ThreadIds |-> NoThread]
    /\ units = [u \in UnitIds |-> NoUnit]
    /\ caller_pc = "ready"
    /\ stopped = FALSE
    /\ p_now = 0

\* add_task by a caller: a task under a key not used before
PollAddTask ==
    /\ UNCHANGED notPoll
    /\ Cardinality(p_used) < MaxTasks
    /\ \E expr \in PollExprs, enabled \in BOOLEAN :
        LET k == Cardinality(p_used) + 1
        IN /\ (p_impl = "functions") => enabled
           /\ p_tasks' = Put(p_tasks, k, PollTask(expr, enabled))
           /\ p_used' = p_used \cup {k}
    /\ UNCHANGED <<p_impl, stop_flag, scheduler_thread, threads, units, caller_pc,
                   stopped, p_now>>

\* remove_task by a caller
PollRemoveTask ==
    /\ UNCHANGED notPoll
    /\ \E k \in DOMAIN p_tasks : p_tasks' = Remove(p_tasks, k)
    /\ UNCHANGED <<p_impl, p_used, stop_flag, scheduler_thread, threads, units,
                   caller_pc, stopped, p_now>>

\* update_task by a caller with the task's enabled flag turned over
PollToggleTask ==
    /\ UNCHANGED notPoll
    /\ p_impl = "scheduler"
    /\ \E k \in DOMAIN p_tasks :
          p_tasks' = [p_tasks EXCEPT ![k].enabled = ~ p_tasks[k].enabled]
    /\ UNCHANGED <<p_impl, p_used, stop_flag, scheduler_thread, threads, units,
                   caller_pc, stopped, p_now>>

\* TaskScheduler.start: a new thread unless scheduler_thread is alive
SchedStart ==
    /\ UNCHANGED notPoll
    /\ p_impl = "scheduler"
    /\ caller_pc = "ready"
    /\ IF scheduler_thread = 0 \/ ~ IsAlive(scheduler_thread)
       THEN \E th \in FreeThreads :
              /\ stop_flag' = FALSE
              /\ threads' = [threads EXCEPT ![th].pc = "check"]
              /\ scheduler_thread' = th
       ELSE UNCHANGED <<stop_flag, threads, scheduler_thread>>
    /\ stopped' = FALSE
    /\ UNCHANGED <<p_impl, p_tasks, p_used, units, caller_pc, p_now>>

\* TaskExecutor.start: clears the event and starts a thread, whatever runs
FxStart ==
    /\ UNCHANGED notPoll
    /\ p_impl = "functions"
    /\ \E th \in FreeThreads :
          threads' = [threads EXCEPT ![th].pc = "check"]
    /\ stop_flag' = FALSE
    /\ stopped' = FALSE
    /\ UNCHANGED <<p_impl, p_tasks, p_used, scheduler_thread, units, caller_pc, p_now>>

\* TaskScheduler.stop: sets the flag, then joins the thread if it is alive
SchedStop ==
    /\ UNCHANGED notPoll
    /\ p_impl = "scheduler"
    /\ caller_pc = "ready"
    /\ stop_flag' = TRUE
    /\ IF scheduler_thread # 0 /\ IsAlive(scheduler_thread)
       THEN caller_pc' = "joining" /\ UNCHANGED stopped
       ELSE stopped' = TRUE /\ UNCHANGED caller_pc
    /\ UNCHANGED <<p_impl, p_tasks, p_used, scheduler_thread, threads, units, p_now>>

\* scheduler_thread.join() returns: the thread has ended
SchedStopReturns ==
    /\ UNCHANGED notPoll
    /\ caller_pc = "joining"
    /\ ~ IsAlive(scheduler_thread)
    /\ caller_pc' = "ready"
    /\ stopped' = TRUE
    /\ UNCHANGED <<p_impl, p_tasks, p_used, stop_flag, scheduler_thread, threads,
                   units, p_now>>

\* TaskExecutor.stop: sets the event (and each task's own event, which
\* nothing reads) and returns
FxStop ==
    /\ UNCHANGED notPoll
    /\ p_impl = "functions"
    /\ stop_flag' = TRUE
    /\ stopped' = TRUE
    /\ UNCHANGED <<p_impl, p_tasks, p_used, scheduler_thread, threads, units,
                   caller_pc, p_now>>

\* the while test of a poll loop: leave when the flag is set, else take
\* current_time and start iterating the tasks
LoopCheck ==
    /\ UNCHANGED notPoll
    /\ \E th \in ThreadIds :
        /\ threads[th].pc = "check"
        /\ threads' = [threads EXCEPT ![th] =
               IF stop_flag THEN [@ EXCEPT !.pc = "exited"]
               ELSE [pc |-> "scan", todo |-> KeyList(DOMAIN p_tasks),
                     size |-> Cardinality(DOMAIN p_tasks), current_time |-> p_now]]
    /\ UNCHANGED <<p_impl, p_tasks, p_used, stop_flag, scheduler_thread, units,
                   caller_pc, stopped, p_now>>

\* one step of "for task in self.tasks.values()"; the iterator raises
\* RuntimeError when the dict changed size, outside any try
LoopNextTask ==
    /\ UNCHANGED notPoll
    /\ \E th \in ThreadIds :
        /\ threads[th].pc = "scan"
        /\ LET t == threads[th]
               k == Head(t.todo)
               skip == [threads EXCEPT ![th].todo = Tail(t.todo)]
           IN IF Cardinality(DOMAIN p_tasks) # t.size
              THEN /\ threads' = [threads EXCEPT ![th].pc = "dead"]
                   /\ UNCHANGED units
              ELSE IF t.todo = <<>>
              THEN /\ threads' = [threads EXCEPT ![th].pc = "sleep"]
                   /\ UNCHANGED units
              ELSE IF k \notin DOMAIN p_tasks
              THEN threads' = skip /\ UNCHANGED units
              ELSE IF p_impl = "scheduler"
              THEN /\ UNCHANGED units
                   /\ IF SchedEligible(p_tasks[k])
                      THEN IF ~ ParseExpression(p_tasks[k].cron_expression).ok
                           THEN threads' = skip    \* ValueError, printed
                           ELSE IF SchedDue(p_tasks[k].cron_expression, t.current_time)
                           THEN threads' = [threads EXCEPT ![th].pc = "exec"]
                           ELSE threads' = skip
                      ELSE threads' = skip
              ELSE IF p_tasks[k].cron_expression # NoExpr
                      /\ p_tasks[k].status # STATUS_RUNNING
                   THEN IF ~ CroniterAccepts(p_tasks[k].cron_expression)
                        THEN /\ threads' = [threads EXCEPT ![th].pc = "dead"]
                             /\ UNCHANGED units
                        ELSE IF FxDue(p_tasks[k].cron_expression, t.current_time)
                        THEN /\ threads' = skip
                             /\ \E u \in FreeUnits :
                                  units' = [units EXCEPT
                                              ![u] = [task |-> k, phase |-> "spawned"]]
                        ELSE threads' = skip /\ UNCHANGED units
                   ELSE threads' = skip /\ UNCHANGED units
    /\ UNCHANGED <<p_impl, p_tasks, p_used, stop_flag, scheduler_thread, caller_pc,
                   stopped, p_now>>

\* _scheduler_loop is inside self.executor.execute_task(task, execution_id):
\* execution_id is an int, execution.start() raises AttributeError, the
\* except clause of the loop prints it
LoopExecRaises ==
    /\ UNCHANGED notPoll
    /\ \E th \in ThreadIds :
        /\ threads[th].pc = "exec"
        /\ threads' = [threads EXCEPT ![th].pc = "scan",
                                      ![th].todo = Tail(threads[th].todo)]
    /\ UNCHANGED <<p_impl, p_tasks, p_used, stop_flag, scheduler_thread, units,
                   caller_pc, stopped, p_now>>

\* time.sleep returns
LoopSleepReturns ==
    /\ UNCHANGED notPoll
    /\ \E th \in ThreadIds :
        /\ threads[th].pc = "sleep"
        /\ threads' = [threads EXCEPT ![th].pc = "check"]
    /\ p_now' = IF p_now < MaxTicks THEN p_now + 1 ELSE p_now
    /\ UNCHANGED <<p_impl, p_tasks, p_used, stop_flag, scheduler_thread, units,
                   caller_pc, stopped>>

\* TaskScheduler.execute_task_immediately(task_id) by a caller: the caller is
\* inside self.executor.execute_task(task, execution_id)
SchedRunImmediately ==
    /\ UNCHANGED notPoll
    /\ p_impl = "scheduler"
    /\ \E k \in DOMAIN p_tasks : \E u \in FreeUnits :
          units' = [units EXCEPT ![u] = [task |-> k, phase |-> "running"]]
    /\ UNCHANGED <<p_impl, p_tasks, p_used, stop_flag, scheduler_thread, threads,
                   caller_pc, stopped, p_now>>

\* TaskExecutor.execute_task(task_id) by a caller, or _execute_cron_task in
\* its thread: task.execute() sets the status to running
FxExecuteBegins ==
    /\ UNCHANGED notPoll
    /\ p_impl = "functions"
    /\ \/ \E k \in DOMAIN p_tasks : \E u \in FreeUnits :
            /\ units' = [units EXCEPT ![u] = [task |-> k, phase |-> "running"]]
            /\ p_tasks' = [p_tasks EXCEPT ![k].status = STATUS_RUNNING]
       \/ \E u \in UnitIds :
            /\ units[u].phase = "spawned"
            /\ units' = [units EXCEPT ![u].phase = "running"]
            /\ p_tasks' = IF units[u].task \in DOMAIN p_tasks
                          THEN [p_tasks EXCEPT ![units[u].task].status = STATUS_RUNNING]
                          ELSE p_tasks
    /\ UNCHANGED <<p_impl, p_used, stop_flag, scheduler_thread, threads, caller_pc,
                   stopped, p_now>>

\* the execution ends: the functions Task leaves the running status (here
\* with the work succeeding; the poll loop reads a failed status the same
\* way); the TaskScheduler call raises AttributeError at execution.start()
UnitEnds ==
    /\ UNCHANGED notPoll
    /\ \E u \in UnitIds :
        /\ units[u].phase = "running"
        /\ units' = [units EXCEPT ![u] = NoUnit]
        /\ IF p_impl = "functions" /\ units[u].task \in DOMAIN p_tasks
           THEN p_tasks' = [p_tasks EXCEPT ![units[u].task].status = STATUS_COMPLETED]
           ELSE UNCHANGED p_tasks
    /\ UNCHANGED <<p_impl, p_used, stop_flag, scheduler_thread, threads, caller_pc,
                   stopped, p_now>>

NextPoll ==
    \/ PollAddTask
    \/ PollRemoveTask
    \/ PollToggleTask
    \/ SchedStart
    \/ FxStart
    \/ SchedStop
    \/ SchedStopReturns
    \/ FxStop
    \/ LoopCheck
    \/ LoopNextTask
    \/ LoopExecRaises
    \/ LoopSleepReturns
    \/ SchedRunImmediately
    \/ FxExecuteBegins
    \/ UnitEnds

(***************************************************************************)
(* Properties of the poll loops.                                           *)
(***************************************************************************)

\* the executions of task k in progress: those of callers and of execution
\* threads, and those a poll thread makes itself
InProgress(k) ==
    Cardinality({u \in UnitIds : units[u].phase = "running" /\ units[u].task = k})
    + Cardinality({th \in ThreadIds :
                      /\ threads[th].pc = "exec"
                      /\ Head(threads[th].todo) = k})

\* C11: at most one execution of a cron task is in progress at any time.
C11_DispatchExclusive ==
    \A k \in DOMAIN p_tasks :
        p_tasks[k].cron_expression = EveryMinute => InProgress(k) <= 1

\* C12: an execution the poll loop of TaskScheduler dispatched is never run
\* by the poll thread itself, so the poll thread goes on to the other tasks
\* and to its next tick while the execution lasts.
C12_DispatchIsConcurrent ==
    \A th \in ThreadIds : threads[th].pc # "exec"

\* C13: at most one poll-loop thread is alive at any time.
C13_OnePollThread ==
    Cardinality({th \in ThreadIds : IsAlive(th)}) <= 1

\* C14: once stop() has returned and until start() is called again, no poll
\* thread evaluates a tick or dispatches.
C14_StopEndsPolling ==
    stopped => \A th \in ThreadIds : threads[th].pc \notin {"scan", "exec"}

\* C15: a poll thread ends only because stop() was called, never because an
\* exception left the loop.
C15_LoopSurvives ==
    \A th \in ThreadIds : threads[th].pc # "dead"

\* C29: the poll loop hands a task to the executor only if the task is
\* enabled and has a cron expression: a disabled task and a task without
\* expression are passed over at every tick.
C29_DispatchOnlyEnabledCron ==
    [][ /\ \A th \in ThreadIds :
              (threads[th].pc = "scan" /\ threads'[th].pc = "exec") =>
                  LET k == Head(threads[th].todo)
                  IN /\ k \in DOMAIN p_tasks
                     /\ p_tasks[k].enabled
                     /\ p_tasks[k].cron_expression # NoExpr
        /\ \A u \in UnitIds :
              (units[u].phase = "free" /\ units'[u].phase = "spawned") =>
                  /\ p_tasks[units'[u].task].enabled
                  /\ p_tasks[units'[u].task].cron_expression # NoExpr ]_vars

\* the poll loop is executing an enabled task with an expression while a
\* disabled task and a task without expression are registered
C29_Witness ==
    /\ \E th \in ThreadIds : threads[th].pc = "exec"
    /\ \E k \in DOMAIN p_tasks : ~ p_tasks[k].enabled \/ p_tasks[k].cron_expression = NoExpr

(***************************************************************************)
(* The registry of TaskScheduler (_scheduler/scheduler.py) with its tasks  *)
(* file, and the cron expressions the registries accept: TaskScheduler     *)
(* and TaskExecutor.add_task of _functions/task_executor.py.               *)
(*                                                                         *)
(* TaskScheduler reads task.id of the tasks it is given.  Task of          *)
(* _scheduler/task.py has no such attribute: a task carries it only when   *)
(* the caller has set it on the object (dyn), with cron_expression beside  *)
(* it.                                                                     *)
(***************************************************************************)

TaskIds == {"t1", "t2"}

\* Task.__init__ of _scheduler/task.py (script_path, params, max_retries and
\* retry_interval are carried like name)
SchTask(task_id, name, cron_expr) ==
    [task_id |-> task_id, name |-> name, cron_expr |-> cron_expr,
     dyn |-> FALSE, id |-> NONE, cron_expression |-> NoExpr]

\* task.id = id; task.cron_expression = expr, set by the caller
WithAttrs(t, id, expr) == [t EXCEPT !.dyn = TRUE, !.id = id, !.cron_expression = expr]

\* Task.to_dict: the fields of __init__ only
SchToDict(t) == [task_id |-> t.task_id, name |-> t.name, cron_expr |-> t.cron_expr]

\* Task.from_dict
SchFromDict(d) == SchTask(d.task_id, d.name, d.cron_expr)

\* [task.to_dict() for task in self.tasks.values()], listed by ascending key
RECURSIVE SchTasksData(_)
SchTasksData(tasks) ==
    IF DOMAIN tasks = {} THEN <<>>
    ELSE LET k == CHOOSE x \in DOMAIN tasks : \A y \in DOMAIN tasks : x <= y
         IN <<SchToDict(tasks[k])>> \o SchTasksData(Remove(tasks, k))

SchNoFile == [state |-> "absent", tasks |-> <<>>, next_id |-> 0]

MaxKey(S) == CHOOSE x \in S : \A y \in S : y <= x

\* TaskScheduler._save_tasks
SchSaveTasks(tasks) ==
    [state |-> "written", tasks |-> SchTasksData(tasks),
     next_id |-> IF DOMAIN tasks # {} THEN MaxKey(DOMAIN tasks) + 1 ELSE 1]

SchCalled(who, op, key, found, ret) ==
    [who |-> who, op |-> op, key |-> key, found |-> found, ret |-> ret]

\* the tasks a caller hands to add_task and update_task
SchTaskInputs ==
    LET plain == {SchTask(i, "a", c) : i \in TaskIds, c \in {NoExpr, BadMinute}}
    IN plain \cup {WithAttrs(t, id, expr) : t \in plain, id \in Keys, expr \in PollExprs}

\* the TaskScheduler object exists: its constructor has not raised and its
\* process has not been killed
SchConstructed ==
    /\ ~ (sch_last.op = "load" /\ sch_last.ret # "None")
    /\ sch_last.op # "killed"

\* the tasks file when the process ends inside _save_tasks: open(.., 'w') has
\* emptied it and json.dump has written a part of the document at most
SchTornFile == [state |-> "partial", tasks |-> <<>>, next_id |-> 0]

InitSch ==
    /\ sch_tasks = EmptyMap
    /\ sch_file = SchNoFile
    /\ fxr_tasks = EmptyMap
    /\ sch_last = SchCalled("none", "init", 0, FALSE, "None")

\* TaskScheduler.add_task(t): self.tasks[task.id] = task, then _save_tasks
SchAddTaskOf(t) ==
    /\ UNCHANGED notSch
    /\ SchConstructed
    /\ IF ~ t.dyn
       THEN /\ sch_last' = SchCalled("sch", "add", 0, FALSE, "AttributeError")
            /\ UNCHANGED <<sch_tasks, sch_file>>
       ELSE /\ sch_tasks' = Put(sch_tasks, t.id, t)
            /\ sch_file' = SchSaveTasks(sch_tasks')
            /\ sch_last' = SchCalled("sch", "add", t.id, t.id \in DOMAIN sch_tasks, "None")
    /\ UNCHANGED fxr_tasks

SchAddTask == \E t \in SchTaskInputs : SchAddTaskOf(t)

\* TaskScheduler.remove_task(task_id): returns None whether or not the id
\* was registered
SchRemoveTask ==
    /\ UNCHANGED notSch
    /\ SchConstructed
    /\ \E task_id \in Keys :
        IF task_id \in DOMAIN sch_tasks
        THEN /\ sch_tasks' = Remove(sch_tasks, task_id)
             /\ sch_file' = SchSaveTasks(sch_tasks')
             /\ sch_last' = SchCalled("sch", "remove", task_id, TRUE, "None")
        ELSE /\ sch_last' = SchCalled("sch", "remove", task_id, FALSE, "None")
             /\ UNCHANGED <<sch_tasks, sch_file>>
    /\ UNCHANGED fxr_tasks

\* TaskScheduler.update_task(task): replaces the task registered under
\* task.id; returns None whether or not the id was registered
SchUpdateTask ==
    /\ UNCHANGED notSch
    /\ SchConstructed
    /\ \E t \in SchTaskInputs :
        IF ~ t.dyn
        THEN /\ sch_last' = SchCalled("sch", "update", 0, FALSE, "AttributeError")
             /\ UNCHANGED <<sch_tasks, sch_file>>
        ELSE IF t.id \in DOMAIN sch_tasks
        THEN /\ sch_tasks' = Put(sch_tasks, t.id, t)
             /\ sch_file' = SchSaveTasks(sch_tasks')
             /\ sch_last' = SchCalled("sch", "update", t.id, TRUE, "None")
        ELSE /\ sch_last' = SchCalled("sch", "update", t.id, FALSE, "None")
             /\ UNCHANGED <<sch_tasks, sch_file>>
    /\ UNCHANGED fxr_tasks

\* TaskScheduler.__init__ in a new process: _load_tasks builds each task with
\* Task.from_dict and reads task.id, which raises AttributeError
SchRestart ==
    /\ UNCHANGED notSch
    /\ IF sch_file.state = "partial"
       THEN /\ sch_tasks' = EmptyMap
            /\ sch_last' = SchCalled("sch", "load", 0, FALSE, "JSONDecodeError")
       ELSE IF sch_file.state = "written" /\ sch_file.tasks # <<>>
       THEN /\ ~ SchFromDict(Head(sch_file.tasks)).dyn
            /\ sch_tasks' = EmptyMap
            /\ sch_last' = SchCalled("sch", "load", 0, FALSE, "AttributeError")
       ELSE /\ sch_tasks' = EmptyMap
            /\ sch_last' = SchCalled("sch", "load", 0, FALSE, "None")
    /\ UNCHANGED <<sch_file, fxr_tasks>>

\* the process is killed while add_task, remove_task or update_task is inside
\* _save_tasks, after the open and before the end of json.dump
SchKilledInSave ==
    /\ UNCHANGED notSch
    /\ SchConstructed
    /\ sch_tasks' = EmptyMap
    /\ sch_file' = SchTornFile
    /\ sch_last' = SchCalled("sch", "killed", 0, FALSE, "None")
    /\ UNCHANGED fxr_tasks

\* TaskExecutor.add_task(func, cron_expr=expr) of _functions/task_executor.py:
\* the expression is stored as given
FxrAddTask ==
    /\ UNCHANGED notSch
    /\ Cardinality(DOMAIN fxr_tasks) < MaxTasks
    /\ \E expr \in PollExprs :
        LET task_id == CHOOSE k \in Keys : k \notin DOMAIN fxr_tasks
        IN /\ fxr_tasks' = Put(fxr_tasks, task_id, [cron_expr |-> expr])
           /\ sch_last' = SchCalled("fx", "add", task_id, FALSE, "task_id")
    /\ UNCHANGED <<sch_tasks, sch_file>>

\* TaskExecutor.remove_task(task_id) of _functions/task_executor.py
FxrRemoveTask ==
    /\ UNCHANGED notSch
    /\ \E task_id \in Keys :
        IF task_id \in DOMAIN fxr_tasks
        THEN /\ fxr_tasks' = Remove(fxr_tasks, task_id)
             /\ sch_last' = SchCalled("fx", "remove", task_id, TRUE, "True")
        ELSE /\ sch_last' = SchCalled("fx", "remove", task_id, FALSE, "False")
             /\ UNCHANGED fxr_tasks
    /\ UNCHANGED <<sch_tasks, sch_file>>

NextSch ==
    \/ SchAddTask
    \/ SchRemoveTask
    \/ SchUpdateTask
    \/ SchRestart
    \/ SchKilledInSave
    \/ FxrAddTask
    \/ FxrRemoveTask

(***************************************************************************)
(* Properties of the TaskScheduler registry.                               *)
(***************************************************************************)

\* the parser accepts the expression, if there is one
ParsesIfPresent(expr) == expr # NoExpr => ParseExpression(expr).ok

\* C16: every cron expression of a registered task is one the parser accepts.
C16_RegisteredCronParses ==
    /\ \A k \in DOMAIN sch_tasks :
          /\ ParsesIfPresent(sch_tasks[k].cron_expression)
          /\ ParsesIfPresent(sch_tasks[k].cron_expr)
    /\ \A k \in DOMAIN fxr_tasks : ParsesIfPresent(fxr_tasks[k].cron_expr)

\* C18: after loading the tasks file, saving the registry again would write
\* the tasks the file holds, with the same field values.
C18_LoadSaveRoundTrip ==
    sch_last.op = "load" => SchSaveTasks(sch_tasks).tasks = sch_file.tasks

\* C19: add_task with a task whose id is registered reports DuplicateId and
\* leaves the registry and the tasks file as they were.
C19_DuplicateAddRejected ==
    [][ \A t \in SchTaskInputs :
          (t.dyn /\ t.id \in DOMAIN sch_tasks /\ SchAddTaskOf(t))
          => /\ sch_tasks' = sch_tasks
             /\ sch_file' = sch_file
             /\ sch_last'.ret = "DuplicateId" ]_vars

\* what a call returns when the id was registered
SuccessReturn(who, op) == IF who = "fx" THEN "True" ELSE "None"

\* C20: remove and update with an id that is not registered leave the
\* registry and the tasks file unchanged and return something a successful
\* call does not return; with a registered id they change only that task.
C20_NotFoundReported ==
    [][ (SchRemoveTask \/ SchUpdateTask \/ FxrRemoveTask)
        => IF sch_last'.ret = "AttributeError" THEN TRUE
           ELSE IF ~ sch_last'.found
           THEN /\ sch_tasks' = sch_tasks
                /\ fxr_tasks' = fxr_tasks
                /\ sch_file' = sch_file
                /\ sch_last'.ret # SuccessReturn(sch_last'.who, sch_last'.op)
           ELSE /\ \A k \in DOMAIN sch_tasks \ {sch_last'.key} :
                      k \in DOMAIN sch_tasks' /\ sch_tasks'[k] = sch_tasks[k]
                /\ DOMAIN sch_tasks' \subseteq DOMAIN sch_tasks
                /\ \A k \in DOMAIN fxr_tasks \ {sch_last'.key} :
                      k \in DOMAIN fxr_tasks' /\ fxr_tasks'[k] = fxr_tasks[k] ]_vars

(***************************************************************************)
(* The execution history: ExecutionHistory.get_all_executions and          *)
(* filter_executions of _scheduler/task.py, and                            *)
(* TaskExecutor.get_execution_records of _functions/task_executor.py.      *)
(***************************************************************************)

MaxRecords == 3

HistStatuses == {STATUS_COMPLETED, STATUS_FAILED}

HistTimes == {1, 2}

\* a stored record: TaskExecution.to_dict / the record dict of
\* _save_execution_record, with the fields the filters read
HistRecord(execution_id, task_name, status, start_time) ==
    [execution_id |-> execution_id, task_name |-> task_name, status |-> status,
     start_time |-> start_time]

\* the criteria of a filter call; "" and NONE are the values Python takes
\* for false: the criterion is not applied
HistQuery(task_name, status, start_time_from, start_time_to) ==
    [task_name |-> task_name, status |-> status,
     start_time_from |-> start_time_from, start_time_to |-> start_time_to]

NoQuery == [task_name |-> "none", status |-> "none",
            start_time_from |-> NONE, start_time_to |-> NONE]

HistQueries ==
    {HistQuery(n, s, f, t) : n \in {"", "a"}, s \in {""} \cup HistStatuses,
                             f \in {NONE, 2}, t \in {NONE, 1}}

\* key=lambda x: x.start_time or datetime.min
SortKey(r) == r.start_time

\* one insertion of a stable descending sort: r goes behind every record
\* whose key is not smaller
RECURSIVE InsertDesc(_, _)
InsertDesc(sorted, r) ==
    IF sorted = <<>> THEN <<r>>
    ELSE IF SortKey(Head(sorted)) >= SortKey(r)
         THEN <<Head(sorted)>> \o InsertDesc(Tail(sorted), r)
         ELSE <<r>> \o sorted

RECURSIVE SortFrom(_, _)
SortFrom(sorted, rest) ==
    IF rest = <<>> THEN sorted
    ELSE SortFrom(InsertDesc(sorted, Head(rest)), Tail(rest))

SortByStartDesc_Unsorted(s) == s

\* list.sort(key=..., reverse=True)
SortByStartDesc(s) == SortFrom(<<>>, s)

\* ExecutionHistory.get_all_executions: every record file, sorted
GetAllExecutions(store) == SortByStartDesc(store)

\* ExecutionHistory.filter_executions
FilterExecutions(store, q) ==
    LET by_name(e) == e.task_name = q.task_name
        by_status(e) == e.status = q.status
        by_from(e) == e.start_time # NONE /\ e.start_time >= q.start_time_from
        by_to(e) == e.start_time # NONE /\ e.start_time <= q.start_time_to
        all_executions == GetAllExecutions(store)
        f1 == IF q.task_name # "" THEN SelectSeq(all_executions, by_name)
              ELSE all_executions
        f2 == IF q.status # "" THEN SelectSeq(f1, by_status) ELSE f1
        f3 == IF q.start_time_from # NONE THEN SelectSeq(f2, by_from) ELSE f2
        f4 == IF q.start_time_to # NONE THEN SelectSeq(f3, by_to) ELSE f3
    IN f4

\* TaskExecutor.get_execution_records: the same criteria on execution_time,
\* sorted after filtering
GetExecutionRecords(store, q) ==
    LET by_name(r) == r.task_name = q.task_name
        by_from(r) == r.start_time >= q.start_time_from
        by_to(r) == r.start_time <= q.start_time_to
        by_status(r) == r.status = q.status
        f1 == IF q.task_name # "" THEN SelectSeq(store, by_name) ELSE store
        f2 == IF q.start_time_from # NONE THEN SelectSeq(f1, by_from) ELSE f1
        f3 == IF q.start_time_to # NONE THEN SelectSeq(f2, by_to) ELSE f2
        f4 == IF q.status # "" THEN SelectSeq(f3, by_status) ELSE f3
    IN SortByStartDesc(f4)

\* the ids of the stored records
HistIds(store) == {store[i].execution_id : i \in DOMAIN store}

\* ExecutionHistory.delete_execution: the file of the id is removed and True
\* returned; False when there is no such file
DeleteExecution(store, execution_id) ==
    LET other(r) == r.execution_id # execution_id
    IN [store |-> SelectSeq(store, other),
        ret |-> IF execution_id \in HistIds(store) THEN "True" ELSE "False"]

\* ExecutionHistory.delete_old_executions: its first statement evaluates
\* timedelta, a name task.py never imports, so the call raises NameError
\* before it has read a record
DeleteOldExecutions(store, cutoff_time) == [store |-> store, ret |-> "NameError"]

HistCall(op, arg, ret) == [op |-> op, arg |-> arg, ret |-> ret]

NoHistCall == HistCall("none", 0, "None")

InitHist ==
    /\ hist_impl \in {"history", "functions"}
    /\ hist_store = <<>>
    /\ hist_query = NoQuery
    /\ hist_result = <<>>
    /\ hist_last = NoHistCall

\* ExecutionHistory.save_execution / TaskExecutor._save_execution_record: one
\* more record is stored, under an id no stored record has; a record of the functions
\* executor always has its execution_time
HistSave ==
    /\ UNCHANGED notHist
    /\ hist_query = NoQuery
    /\ Len(hist_store) < MaxRecords
    /\ \E n \in Names, s \in HistStatuses, t \in HistTimes \cup {NONE} :
        /\ (hist_impl = "functions") => t # NONE
        /\ hist_store' = Append(hist_store, HistRecord(Min((1 .. MaxRecords) \ HistIds(hist_store)), n, s, t))
    /\ hist_last' = HistCall("save", Min((1 .. MaxRecords) \ HistIds(hist_store)), "None")
    /\ UNCHANGED <<hist_impl, hist_query, hist_result>>

\* a filter call on the stored records
HistFilter ==
    /\ UNCHANGED notHist
    /\ hist_query = NoQuery
    /\ \E q \in HistQueries :
        /\ hist_query' = q
        /\ hist_result' = IF hist_impl = "history"
                          THEN FilterExecutions(hist_store, q)
                          ELSE GetExecutionRecords(hist_store, q)
    /\ hist_last' = HistCall("filter", 0, "None")
    /\ UNCHANGED <<hist_impl, hist_store>>

\* a delete_execution call, for a stored id or for one that is not stored
HistDelete ==
    /\ UNCHANGED notHist
    /\ hist_impl = "history"
    /\ hist_query = NoQuery
    /\ \E id \in 1 .. MaxRecords + 1 :
        LET r == DeleteExecution(hist_store, id)
        IN /\ hist_store' = r.store
           /\ hist_last' = HistCall("delete", id, r.ret)
    /\ UNCHANGED <<hist_impl, hist_query, hist_result>>

\* a delete_old_executions call whose cutoff, now less the days, is c
HistDeleteOld ==
    /\ UNCHANGED notHist
    /\ hist_impl = "history"
    /\ hist_query = NoQuery
    /\ \E c \in HistTimes :
        LET r == DeleteOldExecutions(hist_store, c)
        IN /\ hist_store' = r.store
           /\ hist_last' = HistCall("prune", c, r.ret)
    /\ UNCHANGED <<hist_impl, hist_query, hist_result>>

NextHist ==
    \/ HistSave
    \/ HistFilter
    \/ HistDelete
    \/ HistDeleteOld

(***************************************************************************)
(* Properties of the execution history.                                    *)
(***************************************************************************)

Elements(s) == {s[i] : i \in DOMAIN s}

\* the record satisfies every criterion the query gives
Satisfies(r, q) ==
    /\ q.task_name # "" => r.task_name = q.task_name
    /\ q.status # "" => r.status = q.status
    /\ q.start_time_from # NONE =>
          (r.start_time # NONE /\ r.start_time >= q.start_time_from)
    /\ q.start_time_to # NONE =>
          (r.start_time # NONE /\ r.start_time <= q.start_time_to)

\* C17: a filter call returns exactly the stored records that satisfy all its
\* criteria, each once, ordered by start time descending.
C17_FilterIsExact ==
    hist_query # NoQuery =>
        /\ Elements(hist_result) = {r \in Elements(hist_store) : Satisfies(r, hist_query)}
        /\ Len(hist_result) = Cardinality(Elements(hist_result))
        /\ \A i, j \in DOMAIN hist_result :
              i < j => hist_result[i].start_time >= hist_result[j].start_time

\* a filter by status alone on records of both statuses, stored in ascending
\* order of start time, that returned two records and left one out
C17_Witness ==
    /\ hist_query = HistQuery("", STATUS_FAILED, NONE, NONE)
    /\ Len(hist_result) = 2
    /\ Len(hist_store) = 3
    /\ hist_result[1].start_time > hist_result[2].start_time
    /\ hist_result[1].execution_id > hist_result[2].execution_id

(***************************************************************************)
(* How long an invocation of the work may run: _execute_script of          *)
(* _scheduler/executor.py runs the script under subprocess.run's timeout,  *)
(* Task.execute of _functions/task_executor.py calls self.func directly.   *)
(* Time is counted in units of 1800 seconds.                               *)
(***************************************************************************)

MaxWork == 3

\* timeout=3600 of subprocess.run in _execute_script: 3600 s are 2 units
ScriptTimeout == 2

\* the ceiling an invocation runs under: the Task classes have no timeout
\* field, the one ceiling is the number _execute_script passes
HasCeiling(i) == i = "scheduler"

InitWork ==
    /\ w_impl \in {"scheduler", "functions"}
    /\ w_max_retries \in 0 .. MaxRetries
    /\ w_need = 0
    /\ w_elapsed = 0
    /\ w_retry = 0
    /\ w_pc = "idle"

\* execute_task / Task.execute is called: retry_count = 0 and the first
\* invocation begins
WorkCall ==
    /\ UNCHANGED notWork
    /\ w_pc \in {"idle", "completed", "failed"}
    /\ \E n \in 1 .. MaxWork : w_need' = n
    /\ w_elapsed' = 0
    /\ w_retry' = 0
    /\ w_pc' = "running"
    /\ UNCHANGED <<w_impl, w_max_retries>>

\* the invocation goes on running: nothing has ended it yet
WorkRuns ==
    /\ UNCHANGED notWork
    /\ w_pc = "running"
    /\ w_elapsed < w_need
    /\ ~ (HasCeiling(w_impl) /\ w_elapsed >= ScriptTimeout)
    /\ w_elapsed' = w_elapsed + 1
    /\ UNCHANGED <<w_impl, w_max_retries, w_need, w_retry, w_pc>>

\* what both loops do with a failed attempt: retry while retry_count is
\* below the maximum, else end as failed
AfterFailure ==
    IF CanRetry(w_retry, w_max_retries)
    THEN /\ w_retry' = w_retry + 1
         /\ \E n \in 1 .. MaxWork : w_need' = n
         /\ w_elapsed' = 0
         /\ w_pc' = "running"
    ELSE /\ w_pc' = "failed"
         /\ UNCHANGED <<w_need, w_elapsed, w_retry>>

\* the invocation ends by itself: return code 0 / func returns, or a nonzero
\* code / func raises
WorkEnds ==
    /\ UNCHANGED notWork
    /\ w_pc = "running"
    /\ w_elapsed = w_need
    /\ \/ w_pc' = "completed" /\ UNCHANGED <<w_need, w_elapsed, w_retry>>
       \/ AfterFailure
    /\ UNCHANGED <<w_impl, w_max_retries>>

\* subprocess.run kills the script at the timeout and raises TimeoutExpired;
\* _execute_script returns code -1, a failed attempt like any other
WorkTimesOut ==
    /\ UNCHANGED notWork
    /\ w_pc = "running"
    /\ HasCeiling(w_impl)
    /\ w_elapsed = ScriptTimeout
    /\ w_elapsed < w_need
    /\ AfterFailure
    /\ UNCHANGED <<w_impl, w_max_retries>>

NextWork ==
    \/ WorkCall
    \/ WorkRuns
    \/ WorkEnds
    \/ WorkTimesOut

\* C24: an invocation that reaches the timeout is ended there: none is found
\* running for longer than the timeout, whichever runner makes it.
C24_TimeoutEndsInvocation == w_pc = "running" => w_elapsed <= ScriptTimeout

(***************************************************************************)
(* Running a task at once and removing it, against the stored execution    *)
(* records: TaskScheduler (_scheduler/scheduler.py), TaskExecutor          *)
(* (_functions/task_executor.py) and TaskManager                           *)
(* (_functions/task_manager.py).  An object is its tasks (key -> name) and *)
(* its execution records.                                                  *)
(***************************************************************************)

MaxRuns == 2

\* the record _save_execution_record builds: the task's id and a copy of its
\* name and status
RunRecord(task_id, task_name, status) ==
    [task_id |-> task_id, task_name |-> task_name, status |-> status]

RunReturned(op, task_id, ret) == [op |-> op, task_id |-> task_id, ret |-> ret]

\* an execute_task that also runs and records an id it does not know
FxExecuteTask_RunsUnknown(obj, task_id, ok) ==
    [obj |-> [obj EXCEPT !.execution_records =
                 Append(@, RunRecord(task_id,
                                     IF task_id \in DOMAIN obj.tasks
                                     THEN obj.tasks[task_id] ELSE "a",
                                     IF ok THEN "completed" ELSE "failed"))],
     ret |-> IF ok THEN "result" ELSE "None",
     invoked |-> 1]

\* TaskExecutor.execute_task: None for an unknown id, else task.execute(),
\* whose result is returned (None when it failed), and one record is stored
FxExecuteTask(obj, task_id, ok) ==
    IF task_id \notin DOMAIN obj.tasks
    THEN [obj |-> obj, ret |-> "None", invoked |-> 0]
    ELSE [obj |-> [obj EXCEPT !.execution_records =
                      Append(@, RunRecord(task_id, obj.tasks[task_id],
                                          IF ok THEN "completed" ELSE "failed"))],
          ret |-> IF ok THEN "result" ELSE "None",
          invoked |-> 1]

\* TaskScheduler.execute_task_immediately: ValueError for an unknown id; else
\* executor.execute_task is handed the integer execution id and its
\* execution.start() raises AttributeError before any work or record
SchedExecuteTaskImmediately(obj, task_id) ==
    [obj |-> obj,
     ret |-> IF task_id \notin DOMAIN obj.tasks THEN "ValueError" ELSE "AttributeError",
     invoked |-> 0]

\* TaskManager.run_task (tasks are added enabled): False for an unknown id,
\* else the script is run and True or False returned; nothing is recorded
MgrRunTask(obj, task_id, ok) ==
    IF task_id \notin DOMAIN obj.tasks
    THEN [obj |-> obj, ret |-> "False", invoked |-> 0]
    ELSE [obj |-> obj, ret |-> IF ok THEN "True" ELSE "False", invoked |-> 1]

\* a removal that also drops the records of the task
DelTask_WithRecords(obj, task_id) ==
    [tasks |-> Remove(obj.tasks, task_id),
     execution_records |->
         LET Other(r) == r.task_id # task_id
         IN SelectSeq(obj.execution_records, Other)]

\* del self.tasks[task_id] of remove_task / delete_task
DelTask(obj, task_id) == [obj EXCEPT !.tasks = Remove(obj.tasks, task_id)]

InitRun ==
    /\ run_impl \in {"scheduler", "functions", "manager"}
    /\ runner = [tasks |-> EmptyMap, execution_records |-> <<>>]
    /\ run_invocations = 0
    /\ run_last = RunReturned("init", 0, "None")

\* add_task: the scheduler stores under task.id whatever was there, the
\* others under an id not in use (uuid4, task_<n>)
RunAddTask ==
    /\ UNCHANGED notRun
    /\ \E name \in Names :
       \E task_id \in IF run_impl = "scheduler" THEN Keys
                      ELSE Keys \ ( DOMAIN runner.tasks \cup
                                    {runner.execution_records[i].task_id :
                                        i \in DOMAIN runner.execution_records} ) :
        /\ runner' = [runner EXCEPT !.tasks = Put(runner.tasks, task_id, name)]
        /\ run_last' = RunReturned("add", task_id, "None")
    /\ UNCHANGED <<run_impl, run_invocations>>

\* remove_task / delete_task: the scheduler returns None either way, the
\* others True or False
RunRemoveTask ==
    /\ UNCHANGED notRun
    /\ \E task_id \in Keys :
        IF task_id \in DOMAIN runner.tasks
        THEN /\ runner' = DelTask(runner, task_id)
             /\ run_last' = RunReturned("remove", task_id,
                               IF run_impl = "scheduler" THEN "None" ELSE "True")
        ELSE /\ runner' = runner
             /\ run_last' = RunReturned("remove", task_id,
                               IF run_impl = "scheduler" THEN "None" ELSE "False")
    /\ UNCHANGED <<run_impl, run_invocations>>

\* execute_task_immediately / execute_task / run_task
RunNow ==
    /\ UNCHANGED notRun
    /\ run_invocations < MaxRuns
    /\ Len(runner.execution_records) < MaxRuns
    /\ \E task_id \in Keys, ok \in BOOLEAN :
        LET r == IF run_impl = "scheduler"
                 THEN SchedExecuteTaskImmediately(runner, task_id)
                 ELSE IF run_impl = "functions"
                 THEN FxExecuteTask(runner, task_id, ok)
                 ELSE MgrRunTask(runner, task_id, ok)
        IN /\ runner' = r.obj
           /\ run_invocations' = run_invocations + r.invoked
           /\ run_last' = RunReturned("run", task_id, r.ret)
    /\ UNCHANGED run_impl

\* an entry of execution_records.json that has lost its 'execution_time' key
BrokenEntry == RunRecord(0, "a", "no execution_time")

\* the records file with its i-th entry broken; i = 0 leaves it as it is
BrokenAt(records, i) ==
    [j \in DOMAIN records |-> IF j = i THEN BrokenEntry ELSE records[j]]

\* TaskExecutor._load_execution_records: the KeyError of the first entry
\* without 'execution_time' is caught around the whole loop and the list is
\* set to []
LoadExecutionRecords(file) ==
    IF \E j \in DOMAIN file : file[j] = BrokenEntry THEN <<>> ELSE file

\* a new TaskExecutor on the log directory of the last one, whose records
\* file has had one entry broken meanwhile, or none: tasks are in memory only
RunRestart ==
    /\ UNCHANGED notRun
    /\ run_impl = "functions"
    /\ \E i \in 0 .. Len(runner.execution_records) :
        /\ runner' = [tasks |-> EmptyMap,
                      execution_records |->
                          LoadExecutionRecords(BrokenAt(runner.execution_records, i))]
        /\ run_last' = RunReturned("restart", i, "None")
    /\ UNCHANGED <<run_impl, run_invocations>>

NextRun ==
    \/ RunAddTask
    \/ RunRemoveTask
    \/ RunNow
    \/ RunRestart

\* what a run-now call gives back for an id that is not registered
NotFoundSignals == {"ValueError", "None", "False"}

\* C21: a run-now call with an id that is not registered comes back with the
\* not-found signal (ValueError, None or False), invokes no work and stores
\* no execution record.
C21_RunUnknownDoesNothing ==
    [][( /\ run_last'.op = "run"
         /\ run_last' # run_last
         /\ run_last'.task_id \notin DOMAIN runner.tasks ) =>
          /\ run_last'.ret \in NotFoundSignals
          /\ run_invocations' = run_invocations
          /\ runner' = runner]_vars

\* a run-now call of an id that is not registered has returned, while
\* another task is registered
C21_Witness ==
    /\ run_last.op = "run"
    /\ run_last.task_id \notin DOMAIN runner.tasks
    /\ runner.tasks # EmptyMap
    /\ run_last.ret \in NotFoundSignals

\* C28: removing a task leaves every stored execution record as it is, the
\* records of the removed task with their task-name copy included.
C28_RemoveKeepsHistory ==
    [][(run_last'.op = "remove" /\ run_last' # run_last) =>
          runner'.execution_records = runner.execution_records]_vars

\* a task that has run was removed and its record is still stored
C28_Witness ==
    /\ run_last = RunReturned("remove", run_last.task_id, "True")
    /\ run_last.task_id \notin DOMAIN runner.tasks
    /\ \E i \in DOMAIN runner.execution_records :
          runner.execution_records[i].task_id = run_last.task_id

(***************************************************************************)
(* The due test of the poll loops at the resolution of half a minute, for  *)
(* one enabled task with the expression 'M * * * *': _scheduler_loop of    *)
(* _scheduler/scheduler.py and _cron_check_thread of                       *)
(* _functions/task_executor.py.  The clock counts half minutes; minute m   *)
(* of the clock is minute m % 60 of its hour.                              *)
(***************************************************************************)

MaxDueTicks == 3

\* the minute tokens the task's expression is tried with
DueToks == {Star, Val(0), Val(1), List2(0, 1), Step(20)}

\* the instants the loop is started at: 58:00, 58:30, 59:00 and 59:30
DueStarts == {116, 117, 118, 119}

\* get_next_run_time for 'M * * * *' from the minute base: one minute on,
\* then the minute test of the search (a later minute of the hour, else the
\* first minute of the next hour)
GetNextMinute(minutes, base) ==
    LET start == base + 1
        current == start % 60
        later == {v \in minutes : v > current}
    IN IF current \in minutes THEN start
       ELSE IF later # {} THEN start - current + Min(later)
       ELSE start - current + 60 + Min(minutes)

\* the test of _scheduler_loop at current_time: the next run time counted
\* from one minute before lies less than 60 seconds from current_time
SchedDueAt(minutes, current_time) ==
    LET next_run_time == GetNextMinute(minutes, (current_time - 2) \div 2)
        ahead == 2 * next_run_time - current_time
    IN [due |-> ahead < 2 /\ 0 - ahead < 2, next_run_time |-> next_run_time]

\* the test of _cron_check_thread: croniter's get_next, the first matching
\* minute strictly after current_time, is not later than current_time
FxDueAt(minutes, current_time) ==
    LET next_run_time == GetNextMinute(minutes, current_time \div 2)
    IN [due |-> 2 * next_run_time <= current_time, next_run_time |-> next_run_time]

\* whether a dispatch leaves an execution record: _scheduler_loop hands
\* executor.execute_task the integer id, whose start() raises AttributeError
\* into the loop's except before the store; _execute_cron_task runs the task
\* and then appends its record
DispatchRecorded(who) == who = "functions"

InitDue ==
    /\ due_impl \in {"scheduler", "functions"}
    /\ due_minutes \in DueToks
    /\ due_now \in DueStarts
    /\ due_ticks = 0
    /\ due_log = <<>>

\* one pass of the loop: the due test, the dispatch when it holds, then
\* time.sleep(60) (two half minutes, and whatever the pass itself took) or
\* time.sleep(1)
DueTick ==
    /\ UNCHANGED notDue
    /\ due_ticks < MaxDueTicks
    /\ due_ticks' = due_ticks + 1
    /\ LET minutes == ParseField(due_minutes, 0, 59).vals
           test == IF due_impl = "scheduler" THEN SchedDueAt(minutes, due_now)
                   ELSE FxDueAt(minutes, due_now)
       IN due_log' = IF test.due
                     THEN Append(due_log, [tick |-> due_now,
                                           minute |-> test.next_run_time,
                                           recorded |-> DispatchRecorded(due_impl)])
                     ELSE due_log
    /\ \E lag \in {0, 1} :
          due_now' = IF due_impl = "scheduler" THEN due_now + 2 + lag ELSE due_now + lag
    /\ UNCHANGED <<due_impl, due_minutes>>

NextDue == DueTick

\* C30: every dispatch is made at a tick whose minute the expression
\* matches, and no two dispatches are made for the same matching minute.
C30_OneDispatchPerDueMinute ==
    /\ \A i \in DOMAIN due_log :
          (due_log[i].tick \div 2) % 60 \in ParseField(due_minutes, 0, 59).vals
    /\ \A i, j \in DOMAIN due_log :
          i < j => due_log[i].minute # due_log[j].minute

\* the minutes that begin after every start of the loop and end within the
\* passes explored
DueWatched == {60, 61}

\* C31: every watched minute the expression matches, once the loop has gone
\* past it, has led to a dispatch for that minute and to an execution record
\* of that dispatch.
C31_EveryDueMinuteRuns ==
    \A m \in DueWatched :
        (m % 60 \in ParseField(due_minutes, 0, 59).vals /\ due_now >= 2 * m + 2) =>
            \E i \in DOMAIN due_log : due_log[i].minute = m /\ due_log[i].recorded

\* C39: a delete call for a stored id removes that record and no other and
\* reports success; a delete call for an id that is not stored reports that
\* and leaves the store as it was; a pruning call removes exactly the records
\* that started before its cutoff.
C39_DeleteIsExact ==
    [][ /\ (hist_last' # hist_last /\ hist_last'.op = "delete") =>
              LET other(r) == r.execution_id # hist_last'.arg
              IN IF hist_last'.arg \in HistIds(hist_store)
                 THEN /\ hist_last'.ret = "True"
                      /\ hist_store' = SelectSeq(hist_store, other)
                      /\ Len(hist_store') = Len(hist_store) - 1
                 ELSE /\ hist_last'.ret = "False"
                      /\ hist_store' = hist_store
        /\ (hist_last' # hist_last /\ hist_last'.op = "prune") =>
              LET kept(r) == r.start_time = NONE \/ r.start_time >= hist_last'.arg
              IN hist_store' = SelectSeq(hist_store, kept) ]_vars

\* C37: every step that changes the tasks file leaves a complete document
\* in it, also the step of a process that is killed while it saves: the file
\* then holds what it held before or the whole of what was being saved.
C37_FileNeverTorn ==
    [][sch_file' # sch_file => sch_file'.state = "written"]_vars

\* C38: a start on a records file of which one entry is malformed comes
\* back normally and has loaded every other entry of the file, in the order
\* of the file.
C38_MalformedEntrySkipped ==
    [][(run_last'.op = "restart" /\ run_last' # run_last) =>
          LET i == run_last'.task_id
              file == runner.execution_records
              valid == [j \in 1 .. (IF i = 0 THEN Len(file) ELSE Len(file) - 1) |->
                           IF i = 0 \/ j < i THEN file[j] ELSE file[j + 1]]
          IN /\ run_last'.ret = "None"
             /\ runner'.execution_records = valid]_vars

(***************************************************************************)
(* Concurrent calls of TaskExecutor.execute_task of _functions, from        *)
(* several threads, for one registered task: each runs task.execute() on    *)
(* the same Task object and then _save_execution_record(task).              *)
(***************************************************************************)

MaxCallers == 2

Callers == 1 .. MaxCallers

\* the fields of a Task that _save_execution_record copies into the record
RecFields(status, execution_time, retries) ==
    [status |-> status, execution_time |-> execution_time, retry_count |-> retries]

InitRec ==
    /\ rec_task = RecFields("waiting", NONE, 0)
    /\ rec_pc = [c \in Callers |-> "idle"]
    /\ rec_own = [c \in Callers |-> RecFields("waiting", NONE, 0)]
    /\ rec_records = <<>>
    /\ rec_clock = 0

\* Task.execute, its first statements: status = "running", execution_time =
\* datetime.now()
RecBegin(c) ==
    /\ UNCHANGED notRec
    /\ rec_pc[c] = "idle"
    /\ rec_task' = [rec_task EXCEPT !.status = "running", !.execution_time = rec_clock]
    /\ rec_own' = [rec_own EXCEPT ![c] = RecFields("running", rec_clock, 0)]
    /\ rec_clock' = rec_clock + 1
    /\ rec_pc' = [rec_pc EXCEPT ![c] = "running"]
    /\ UNCHANGED rec_records

\* Task.execute, the end of its loop after k retries: status and retry_count
\* are written to the Task
RecEnd(c) ==
    /\ UNCHANGED notRec
    /\ rec_pc[c] = "running"
    /\ \E ok \in BOOLEAN, k \in 0 .. 1 :
        LET status == IF ok THEN "completed" ELSE "failed"
        IN /\ rec_task' = [rec_task EXCEPT !.status = status, !.retry_count = k]
           /\ rec_own' = [rec_own EXCEPT ![c] = RecFields(status, @.execution_time, k)]
    /\ rec_pc' = [rec_pc EXCEPT ![c] = "executed"]
    /\ UNCHANGED <<rec_records, rec_clock>>

\* _save_execution_record(task): the record, under a uuid of its own, is
\* filled from the fields the Task has now and appended
RecSave(c) ==
    /\ UNCHANGED notRec
    /\ rec_pc[c] = "executed"
    /\ rec_records' = Append(rec_records, [record_id |-> c, fields |-> rec_task])
    /\ rec_pc' = [rec_pc EXCEPT ![c] = "saved"]
    /\ UNCHANGED <<rec_task, rec_own, rec_clock>>

NextRec == \E c \in Callers : RecBegin(c) \/ RecEnd(c) \/ RecSave(c)

\* C33: every call that has returned has one record, and every record
\* carries the status, the retry count and the start time of the run of the
\* call that stored it, whatever other runs went on meanwhile.
C33_RecordIsOfItsRun ==
    /\ \A c \in Callers :
          rec_pc[c] = "saved" =>
              Cardinality({i \in DOMAIN rec_records : rec_records[i].record_id = c}) = 1
    /\ \A i \in DOMAIN rec_records :
          rec_records[i].fields = rec_own[rec_records[i].record_id]

(***************************************************************************)
(* Specifications.                                                         *)
(***************************************************************************)

\* the cron evaluator is not used
CronOff ==
    /\ cron_expression = <<>>
    /\ cron = NoCron
    /\ base_time = NoTime
    /\ next_time = NoTime
    /\ cron_pc = "off"

\* no executor is used
ExecOff ==
    /\ impl = "off"
    /\ max_retries = 0
    /\ retry_interval = 0
    /\ work_plan = 0
    /\ execution = NoExecution
    /\ log_file = <<>>
    /\ created = 0
    /\ ftask = FT_new
    /\ retry_count = 0
    /\ invocations = 0
    /\ backoffs = 0
    /\ now = 0
    /\ ex_pc = "off"

\* no registry is used
RegOff ==
    /\ mgr_tasks = EmptyMap
    /\ mgr_file = NoFile
    /\ mgr_pc = "off"
    /\ fx_tasks = {}
    /\ fx_ids = {}
    /\ io_failures = 0
    /\ reg_last = Called("none", "off", TRUE)

\* the TaskScheduler registry is not used
SchOff ==
    /\ sch_tasks = EmptyMap
    /\ sch_file = SchNoFile
    /\ fxr_tasks = EmptyMap
    /\ sch_last = SchCalled("none", "off", 0, FALSE, "None")

\* no history is used
HistOff ==
    /\ hist_impl = "off"
    /\ hist_store = <<>>
    /\ hist_query = NoQuery
    /\ hist_result = <<>>
    /\ hist_last = NoHistCall

\* no poll loop is used
PollOff ==
    /\ p_impl = "off"
    /\ p_tasks = EmptyMap
    /\ p_used = {}
    /\ stop_flag = FALSE
    /\ scheduler_thread = 0
    /\ threads = [th \in ThreadIds |-> NoThread]
    /\ units = [u \in UnitIds |-> NoUnit]
    /\ caller_pc = "off"
    /\ stopped = FALSE
    /\ p_now = 0

\* no work is run
WorkOff ==
    /\ w_impl = "off"
    /\ w_max_retries = 0
    /\ w_need = 0
    /\ w_elapsed = 0
    /\ w_retry = 0
    /\ w_pc = "off"

\* no run-now call is made
RunOff ==
    /\ run_impl = "off"
    /\ runner = [tasks |-> EmptyMap, execution_records |-> <<>>]
    /\ run_invocations = 0
    /\ run_last = RunReturned("off", 0, "None")

\* no due test is made
DueOff ==
    /\ due_impl = "off"
    /\ due_minutes = Star
    /\ due_now = 0
    /\ due_ticks = 0
    /\ due_log = <<>>

\* no caller executes the shared task
RecOff ==
    /\ rec_task = RecFields("off", NONE, 0)
    /\ rec_pc = [c \in Callers |-> "off"]
    /\ rec_own = [c \in Callers |-> RecFields("off", NONE, 0)]
    /\ rec_records = <<>>
    /\ rec_clock = 0

InitSpecCron == InitCron /\ ExecOff /\ RegOff /\ PollOff /\ SchOff /\ HistOff
    /\ WorkOff /\ RunOff /\ DueOff /\ RecOff

SpecCron == InitSpecCron /\ [][NextCron]_vars

InitSpecExec == InitExec /\ CronOff /\ RegOff /\ PollOff /\ SchOff /\ HistOff
    /\ WorkOff /\ RunOff /\ DueOff /\ RecOff

SpecExec == InitSpecExec /\ [][NextExec]_vars

InitSpecReg == InitReg /\ CronOff /\ ExecOff /\ PollOff /\ SchOff /\ HistOff
    /\ WorkOff /\ RunOff /\ DueOff /\ RecOff

SpecReg == InitSpecReg /\ [][NextReg]_vars

InitSpecPoll == InitPoll /\ CronOff /\ ExecOff /\ RegOff /\ SchOff /\ HistOff
    /\ WorkOff /\ RunOff /\ DueOff /\ RecOff

SpecPoll == InitSpecPoll /\ [][NextPoll]_vars

InitSpecSch == InitSch /\ CronOff /\ ExecOff /\ RegOff /\ PollOff /\ HistOff
    /\ WorkOff /\ RunOff /\ DueOff /\ RecOff

SpecSch == InitSpecSch /\ [][NextSch]_vars

InitSpecHist == InitHist /\ CronOff /\ ExecOff /\ RegOff /\ PollOff /\ SchOff
    /\ WorkOff /\ RunOff /\ DueOff /\ RecOff

SpecHist == InitSpecHist /\ [][NextHist]_vars

InitSpecWork ==
    InitWork /\ CronOff /\ ExecOff /\ RegOff /\ PollOff /\ SchOff /\ HistOff
    /\ RunOff /\ DueOff /\ RecOff

SpecWork == InitSpecWork /\ [][NextWork]_vars

InitSpecRun ==
    InitRun /\ CronOff /\ ExecOff /\ RegOff /\ PollOff /\ SchOff /\ HistOff
    /\ WorkOff /\ DueOff /\ RecOff

SpecRun == InitSpecRun /\ [][NextRun]_vars

InitSpecDue ==
    InitDue /\ CronOff /\ ExecOff /\ RegOff /\ PollOff /\ SchOff /\ HistOff
    /\ WorkOff /\ RunOff /\ RecOff

SpecDue == InitSpecDue /\ [][NextDue]_vars

InitSpecRec ==
    InitRec /\ CronOff /\ ExecOff /\ RegOff /\ PollOff /\ SchOff /\ HistOff
    /\ WorkOff /\ RunOff /\ DueOff

SpecRec == InitSpecRec /\ [][NextRec]_vars

====
